---- MODULE Spec2Model ----
(***************************************************************************)
(* The CSV import of the expenses page                                     *)
(* (frontend/src/components/Expenses.tsx): parseCSV, the handlers of the   *)
(* import modal that call it, and the import run handleImportExpenses.     *)
(*                                                                         *)
(* Text is a sequence of one-character strings, so that split, trim,       *)
(* toLowerCase, parseFloat and parseInt are computed character by          *)
(* character as the JavaScript built-ins compute them.                     *)
(***************************************************************************)
EXTENDS Integers, Sequences, FiniteSets, TLC

\* ------------------------------------------------------------------------
\* Bounds of the model
\* ------------------------------------------------------------------------

\* Most data lines of a pasted text (ParseSpec).
MaxDataLines == 2

\* Most data lines of a text of the import modal in the full page model (Spec).
MaxRunLines == 2

\* The most delete requests a page sends from its delete buttons.
MaxDeletes == 2

\* The most create and update requests a page sends from its form.
MaxSaves == 1

\* The most keys typed into the price field of the Wishlist form.
MaxKeys == 6

\* ------------------------------------------------------------------------
\* JavaScript string built-ins
\* ------------------------------------------------------------------------

\* F applied to the value of v, which is computed once.
Bind(v, F(_)) == CHOOSE y \in { F(b) : b \in {v} } : TRUE

TAB == "\t"
NL == "\n"
CR == "\r"
SP == " "

\* WhiteSpace and LineTerminator code points String.prototype.trim strips
\* (those that occur in the texts of this model).
WhiteSpace == {SP, TAB, NL, CR}

Digits == <<"0", "1", "2", "3", "4", "5", "6", "7", "8", "9">>

UpperCase == <<"A", "B", "C", "D", "E", "F", "G", "H", "I", "J", "K", "L", "M",
               "N", "O", "P", "Q", "R", "S", "T", "U", "V", "W", "X", "Y", "Z">>

LowerCase == <<"a", "b", "c", "d", "e", "f", "g", "h", "i", "j", "k", "l", "m",
               "n", "o", "p", "q", "r", "s", "t", "u", "v", "w", "x", "y", "z">>

IsDigit(c) == \E k \in 1..10 : Digits[k] = c

DigitValue(c) == (CHOOSE k \in 1..10 : Digits[k] = c) - 1

\* String.prototype.toLowerCase, one character.
LowerChar(c) ==
    IF \E k \in 1..26 : UpperCase[k] = c
    THEN LowerCase[CHOOSE k \in 1..26 : UpperCase[k] = c]
    ELSE c

\* String.prototype.toLowerCase
toLowerCase(text) == Bind(text, LAMBDA s : [k \in 1..Len(s) |-> LowerChar(s[k])])

\* String.prototype.trimStart: the text from its first character that is
\* not white space.
TrimStart(text) ==
    Bind(text, LAMBDA s :
        IF \A k \in 1..Len(s) : s[k] \in WhiteSpace THEN <<>>
        ELSE SubSeq(s, CHOOSE k \in 1..Len(s) :
                           s[k] \notin WhiteSpace /\ \A j \in 1..(k - 1) : s[j] \in WhiteSpace,
                    Len(s)))

\* String.prototype.trimEnd: the text up to its last character that is not
\* white space.
TrimEnd(text) ==
    Bind(text, LAMBDA s :
        IF \A k \in 1..Len(s) : s[k] \in WhiteSpace THEN <<>>
        ELSE SubSeq(s, 1, CHOOSE k \in 1..Len(s) :
                              s[k] \notin WhiteSpace /\ \A j \in (k + 1)..Len(s) : s[j] \in WhiteSpace))

\* String.prototype.trim
trim(s) == TrimEnd(TrimStart(s))

\* The pieces of s between the places in `at`, in order (at is a set of
\* places of s).
Pieces(s, at) ==
    LET \* the n-th place; 0 and Len(s) + 1 bound the text
        place(n) == IF n = 0 THEN 0
                    ELSE IF n > Cardinality(at) THEN Len(s) + 1
                    ELSE CHOOSE k \in at : Cardinality({ j \in at : j < k }) = n - 1
    IN  [n \in 1..(Cardinality(at) + 1) |-> SubSeq(s, place(n - 1) + 1, place(n) - 1)]

\* String.prototype.split(sep) for a one-character separator: the pieces
\* between the separators, empty pieces kept; the empty text gives one
\* empty piece.
split(text, sep) ==
    Bind(text, LAMBDA s :
        Bind({ k \in 1..Len(s) : s[k] = sep }, LAMBDA at : Pieces(s, at) \o <<>>))

\* Array.prototype.join(sep) for a sequence of texts.
RECURSIVE join(_, _)
join(parts, sep) ==
    IF parts = <<>> THEN <<>>
    ELSE IF Len(parts) = 1 THEN parts[1]
    ELSE parts[1] \o sep \o join(Tail(parts), sep)

\* The longest prefix of the text made of digits.
DigitPrefix(text) ==
    Bind(text, LAMBDA s :
        SubSeq(s, 1, CHOOSE n \in 0..Len(s) :
                        /\ \A j \in 1..n : IsDigit(s[j])
                        /\ n = Len(s) \/ ~IsDigit(s[n + 1])))

\* The value of a sequence of digits.
RECURSIVE DigitsValue(_)
DigitsValue(digits) ==
    Bind(digits, LAMBDA ds :
        IF ds = <<>> THEN 0
        ELSE 10 * DigitsValue(SubSeq(ds, 1, Len(ds) - 1)) + DigitValue(ds[Len(ds)]))

HasPrefix(s, p) == Len(s) >= Len(p) /\ SubSeq(s, 1, Len(p)) = p

\* A JavaScript number: NaN, an infinity, or a finite value held in
\* hundredths (v = 1250 is 12.5).
NaN == [nan |-> TRUE, inf |-> FALSE, v |-> 0]
Num(v) == [nan |-> FALSE, inf |-> FALSE, v |-> v]
Infinity(neg) == [nan |-> FALSE, inf |-> TRUE, v |-> IF neg THEN -1 ELSE 1]

isNaN(x) == x.nan

INFINITY == <<"I", "n", "f", "i", "n", "i", "t", "y">>

\* The value of the digits ip before and fp after the decimal point, in
\* hundredths: the fraction is read to two digits.
Hundredths(ip, fp) ==
    100 * DigitsValue(ip)
      + (IF Len(fp) = 0 THEN 0
         ELSE IF Len(fp) = 1 THEN 10 * DigitValue(fp[1])
         ELSE 10 * DigitValue(fp[1]) + DigitValue(fp[2]))

\* The digits of the fraction that follows the integer digits ip of s.
FractionDigits(s, ip) ==
    IF Len(s) > Len(ip) /\ s[Len(ip) + 1] = "."
    THEN DigitPrefix(SubSeq(s, Len(ip) + 2, Len(s)))
    ELSE <<>>

\* The unsigned part of parseFloat: "Infinity", or digits with an optional
\* fraction; the text after the longest such prefix is ignored.  No
\* exponent part is read: the texts of this model hold neither a third
\* fraction digit nor an exponent.
ParseUnsigned(text, neg) ==
    Bind(text, LAMBDA s :
        Bind(DigitPrefix(s), LAMBDA ip :
            Bind(FractionDigits(s, ip), LAMBDA fp :
                IF HasPrefix(s, INFINITY) THEN Infinity(neg)
                ELSE IF ip = <<>> /\ fp = <<>> THEN NaN
                ELSE Num(IF neg THEN -Hundredths(ip, fp) ELSE Hundredths(ip, fp)))))

\* parseFloat(string): leading white space is skipped, then an optional
\* sign, then the longest prefix that is a decimal literal; NaN when there
\* is none.
parseFloat(text) ==
    Bind(TrimStart(text), LAMBDA t :
        IF t = <<>> THEN NaN
        ELSE IF Head(t) = "-" THEN ParseUnsigned(Tail(t), TRUE)
        ELSE IF Head(t) = "+" THEN ParseUnsigned(Tail(t), FALSE)
        ELSE ParseUnsigned(t, FALSE))

\* A JavaScript integer result of parseInt: NaN or an integer n.
IntNaN == [nan |-> TRUE, n |-> 0]
IntNum(n) == [nan |-> FALSE, n |-> n]

\* parseInt(string) in radix 10: leading white space is skipped, then an
\* optional sign, then the longest prefix of digits; NaN when there is
\* none.  (No text of this model starts with 0x.)
parseInt(text) ==
    Bind(TrimStart(text), LAMBDA t :
        Bind(DigitPrefix(IF t # <<>> /\ Head(t) \in {"-", "+"} THEN Tail(t) ELSE t),
             LAMBDA ds :
                IF ds = <<>> THEN IntNaN
                ELSE IntNum(IF t[1] = "-" THEN -DigitsValue(ds) ELSE DigitsValue(ds))))

\* ------------------------------------------------------------------------
\* JavaScript Date: new Date(year, month, day).toISOString().split('T')[0]
\* ------------------------------------------------------------------------

IsLeapYear(y) == (y % 4 = 0 /\ y % 100 # 0) \/ y % 400 = 0

\* Days of month m0 (0 = January) of year y.
DaysInMonth(y, m0) ==
    IF m0 = 1 THEN (IF IsLeapYear(y) THEN 29 ELSE 28)
    ELSE IF m0 \in {3, 5, 8, 10} THEN 30
    ELSE 31

\* A calendar date as toISOString().split('T')[0] prints it: year, month
\* (1 = January) and day.
IsoDate(y, m, d) == [y |-> y, m |-> m, d |-> d]

\* The local calendar date of new Date(y, m0, d) for m0 in 0..11 and d in
\* 1..31: a day past the end of the month runs over into the next month; a
\* year in 0..99 is taken as 1900 + year.
LocalDate(y, m0, d) ==
    LET yy == IF y >= 0 /\ y <= 99 THEN 1900 + y ELSE y
        dim == DaysInMonth(yy, m0)
    IN  IF d <= dim THEN IsoDate(yy, m0 + 1, d)
        ELSE IF m0 = 11 THEN IsoDate(yy + 1, 1, d - dim)
        ELSE IsoDate(yy, m0 + 2, d - dim)

\* The calendar day before a date.
PrevDay(date) ==
    IF date.d > 1 THEN IsoDate(date.y, date.m, date.d - 1)
    ELSE IF date.m = 1 THEN IsoDate(date.y - 1, 12, 31)
    ELSE IsoDate(date.y, date.m - 1, DaysInMonth(date.y, date.m - 2))

\* The hosts of the model: west of or at Greenwich (local midnight falls on
\* the same UTC day) and east of it (local midnight falls on the UTC day
\* before).
TimeZones == {"west", "east"}

\* new Date(y, m0, d).toISOString().split('T')[0]: the date is built at
\* local midnight and printed in UTC.
ToISODate(y, m0, d, tz) ==
    IF tz = "east" THEN PrevDay(LocalDate(y, m0, d)) ELSE LocalDate(y, m0, d)

\* new Date().toISOString().split('T')[0] when the page is used.
Today == IsoDate(2026, 11, 6)

\* new Date().getMonth().toString() and new Date().getFullYear().toString()
\* when the page is used.
CurrentMonth == <<"1", "0">>
CurrentYear == <<"2", "0", "2", "6">>

\* ------------------------------------------------------------------------
\* parseCSV
\* ------------------------------------------------------------------------

\* The own properties of the headerMappings object literal: header name to
\* field name.
headerMappings ==
    { <<<<"i", "t", "e", "m">>, "item">>,
      <<<<"v", "e", "n", "d", "o", "r">>, "vendor">>,
      <<<<"p", "r", "i", "c", "e">>, "price">>,
      <<<<"d", "a", "t", "e">>, "date">>,
      <<<<"m", "e", "t", "h", "o", "d">>, "method">>,
      <<<<"p", "a", "y", "m", "e", "n", "t", "_", "m", "e", "t", "h", "o", "d">>, "method">>,
      <<<<"p", "a", "y", "m", "e", "n", "t", " ", "m", "e", "t", "h", "o", "d">>, "method">>,
      <<<<"n", "o", "t", "e", "s">>, "notes">>,
      <<<<"n", "o", "t", "e">>, "notes">>,
      <<<<"c", "a", "t", "e", "g", "o", "r", "i", "e", "s">>, "categories">>,
      <<<<"c", "a", "t", "e", "g", "o", "r", "y">>, "categories">>,
      <<<<"c", "a", "t">>, "categories">> }

\* The properties headerMappings inherits from Object.prototype whose names
\* are all lower case (a header name is looked up after toLowerCase), each
\* with the text its value turns into when it is used as a property key.
InheritedProperties ==
    { <<<<"c", "o", "n", "s", "t", "r", "u", "c", "t", "o", "r">>,
        "function Object() { [native code] }">>,
      <<<<"_", "_", "p", "r", "o", "t", "o", "_", "_">>, "[object Object]">> }

Undefined == "undefined"

\* headerMappings[headerName]: an own property, else an inherited one,
\* else undefined.  Every value found is truthy.
LookupHeader(headerName) ==
    Bind(headerName, LAMBDA name :
        IF \E e \in headerMappings : e[1] = name
        THEN (CHOOSE e \in headerMappings : e[1] = name)[2]
        ELSE IF \E e \in InheritedProperties : e[1] = name
        THEN (CHOOSE e \in InheritedProperties : e[1] = name)[2]
        ELSE Undefined)

\* The header cells: lines[0].split('\t').map(h => h.trim()).
HeaderCells(line) ==
    Bind(split(line, TAB), LAMBDA cells : [k \in 1..Len(cells) |-> trim(cells[k])] \o <<>>)

\* mappedField for each header cell, in the order of the header.
MappedFields(header) ==
    [k \in 1..Len(header) |-> LookupHeader(toLowerCase(header[k]))] \o <<>>

\* headerMap after the loop over the header: for each key found, the
\* (0-based) index of the last header cell that maps to it.
HeaderMap(header) ==
    Bind(MappedFields(header), LAMBDA mapped :
        [f \in { mapped[k] : k \in 1..Len(mapped) } \ {Undefined} |->
            (CHOOSE k \in 1..Len(mapped) :
                /\ mapped[k] = f
                /\ \A j \in (k + 1)..Len(mapped) : mapped[j] # f) - 1])

\* headerMap[field] !== undefined
Present(headerMap, field) == field \in DOMAIN headerMap

\* A data line split on tabs and padded with empty fields to the length of
\* the header.
PaddedRow(line, headerLen) ==
    Bind(split(line, TAB), LAMBDA row :
        IF Len(row) < headerLen
        THEN row \o [k \in 1..(headerLen - Len(row)) |-> <<>>]
        ELSE row)

\* headerMap[field] !== undefined ? row[headerMap[field]] : ''
FieldOf(row, headerMap, field) ==
    IF Present(headerMap, field) THEN row[headerMap[field] + 1] ELSE <<>>

\* One entry of the error list: `Row ${rowNo}: ${msg}` with the quoted
\* text where the message has one; for the message about the columns,
\* rowNo is 0 and cells holds the header cells the message lists
\* (header.join(', ')).
ParseError(rowNo, msg, text) == [row |-> rowNo, msg |-> msg, text |-> text, cells |-> <<>>]

NoError == ParseError(0, "", <<>>)

\* value || fallback for a text.
OrElse(text, fallback) == IF text = <<>> THEN fallback ELSE text

UnknownItem == <<"U", "n", "k", "n", "o", "w", "n", " ", "I", "t", "e", "m">>
UnknownVendor == <<"U", "n", "k", "n", "o", "w", "n", " ", "V", "e", "n", "d", "o", "r">>

\* The price of a data row: the error pushed (NoError when none is) and
\* the value of `price` after the check.
PriceCheck(headerMap, priceStr, rowNo) ==
    IF ~Present(headerMap, "price") THEN [err |-> NoError, price |-> Num(0)]
    ELSE IF trim(priceStr) = <<>>
    THEN [err |-> ParseError(rowNo, "Price cannot be empty", <<>>), price |-> Num(0)]
    ELSE Bind(parseFloat(priceStr), LAMBDA price :
            IF isNaN(price)
            THEN [err |-> ParseError(rowNo, "Invalid price", priceStr), price |-> price]
            ELSE [err |-> NoError, price |-> price])

\* A variant of DayInRange that accepts the day 32.
DayInRangeUpTo32(day) == ~day.nan /\ day.n >= 1 /\ day.n <= 32

\* day accepted: !(isNaN(day) || day < 1 || day > 31)
DayInRange(day) == ~day.nan /\ day.n >= 1 /\ day.n <= 31

\* The date a row with an accepted day is given, and whether toISOString
\* threw a RangeError (new Date of a NaN year or month is an invalid date).
ResolveDate(day, monthNum, yearNum, tz) ==
    IF monthNum.nan \/ yearNum.nan
    THEN [err |-> NoError, dateStr |-> Today, threw |-> TRUE]
    ELSE [err |-> NoError, dateStr |-> ToISODate(yearNum.n, monthNum.n, day.n, tz),
          threw |-> FALSE]

\* The date of a data row: the error pushed (NoError when none is), the
\* value of dateStr after the check, and whether the check threw.
DateCheck(headerMap, dayStr, rowNo, month, year, tz) ==
    IF ~Present(headerMap, "date")
    THEN [err |-> NoError, dateStr |-> Today, threw |-> FALSE]
    ELSE IF trim(dayStr) = <<>>
    THEN [err |-> ParseError(rowNo, "Date cannot be empty", <<>>),
          dateStr |-> Today, threw |-> FALSE]
    ELSE Bind(parseInt(dayStr), LAMBDA day :
            IF ~DayInRange(day)
            THEN [err |-> ParseError(rowNo, "Invalid day", dayStr),
                  dateStr |-> Today, threw |-> FALSE]
            ELSE ResolveDate(day, parseInt(month), parseInt(year), tz))

IsError(e) == e # NoError

\* The values a pass of the loop extracts from the padded row.
RowFields(row, headerMap) ==
    [item |-> FieldOf(row, headerMap, "item"),
     vendor |-> FieldOf(row, headerMap, "vendor"),
     priceStr |-> FieldOf(row, headerMap, "price"),
     dayStr |-> FieldOf(row, headerMap, "date"),
     method |-> FieldOf(row, headerMap, "method"),
     notes |-> FieldOf(row, headerMap, "notes"),
     categories |-> FieldOf(row, headerMap, "categories")]

\* A variant of RowLabel that labels a row with its 0-based index.
RowLabelZeroBased(i) == i

\* The number the messages of lines[i] carry: `Row ${i + 1}`.
RowLabel(i) == i + 1

\* The four checks of a pass, for lines[i] (i 0-based).
RowChecks(f, i, headerMap, month, year, tz) ==
    [item |-> IF Present(headerMap, "item") /\ trim(f.item) = <<>>
              THEN ParseError(RowLabel(i), "Item cannot be empty", <<>>) ELSE NoError,
     vendor |-> IF Present(headerMap, "vendor") /\ trim(f.vendor) = <<>>
                THEN ParseError(RowLabel(i), "Vendor cannot be empty", <<>>) ELSE NoError,
     price |-> PriceCheck(headerMap, f.priceStr, RowLabel(i)),
     date |-> DateCheck(headerMap, f.dayStr, RowLabel(i), month, year, tz)]

\* A variant of RowPushed without the placeholders of item and vendor.
RowPushedWithoutPlaceholders(f, price, dateStr) ==
    [item |-> trim(f.item),
     vendor |-> trim(f.vendor),
     price |-> IF price.nan \/ (~price.inf /\ price.v = 0) THEN Num(0) ELSE price,
     date_purchased |-> dateStr,
     payment_method |-> trim(f.method),
     notes |-> trim(f.notes),
     categories |-> trim(f.categories)]

\* The row a pass without errors pushes to data.
RowPushed(f, price, dateStr) ==
    [item |-> OrElse(trim(f.item), UnknownItem),
     vendor |-> OrElse(trim(f.vendor), UnknownVendor),
     price |-> IF price.nan \/ (~price.inf /\ price.v = 0) THEN Num(0) ELSE price,
     date_purchased |-> dateStr,
     payment_method |-> trim(f.method),
     notes |-> trim(f.notes),
     categories |-> trim(f.categories)]

\* One pass of the loop over the data rows, for lines[i]: the errors
\* pushed, in the order of the four checks; whether the row is skipped; the
\* row pushed to data otherwise; and whether the pass threw.
ParseRow(line, i, headerLen, headerMap, month, year, tz) ==
    Bind(RowFields(PaddedRow(line, headerLen), headerMap), LAMBDA f :
        Bind(RowChecks(f, i, headerMap, month, year, tz), LAMBDA c :
            Bind(SelectSeq(<<c.item, c.vendor, c.price.err, c.date.err>>, IsError),
                 LAMBDA errs :
                    [errs |-> errs,
                     hasErrors |-> errs # <<>>,
                     threw |-> c.date.threw,
                     row |-> RowPushed(f, c.price.price, c.date.dateStr)])))

\* The most errors one pass of the loop pushes: one for each check.
ChecksPerRow == 4

\* The errors of all passes in the order they were pushed.
AllErrors(pass) ==
    SelectSeq([p \in 1..(ChecksPerRow * Len(pass)) |->
                  Bind(pass[((p - 1) \div ChecksPerRow) + 1].errs, LAMBDA errs :
                      IF ((p - 1) % ChecksPerRow) + 1 <= Len(errs)
                      THEN errs[((p - 1) % ChecksPerRow) + 1]
                      ELSE NoError)],
              IsError)

\* A variant of AllData without the `if (hasErrors) continue`: every pass
\* pushes its row.
AllDataWithoutSkip(pass) == [i \in 1..Len(pass) |-> pass[i].row] \o <<>>

\* The rows of the passes without an error, in the order of the passes.
AllData(pass) ==
    SelectSeq([i \in 1..Len(pass) |-> IF pass[i].hasErrors THEN NoError ELSE pass[i].row],
              IsError)

\* A variant of ParseRows that stops at the first pass with an error.
ParseRowsFailFast(lines, headerLen, headerMap, month, year, tz) ==
    Bind([i \in 1..(Len(lines) - 1) |->
             ParseRow(lines[i + 1], i, headerLen, headerMap, month, year, tz)] \o <<>>,
         LAMBDA pass :
            Bind(IF \E i \in 1..Len(pass) : pass[i].hasErrors
                 THEN CHOOSE i \in 1..Len(pass) :
                         pass[i].hasErrors /\ \A j \in 1..(i - 1) : ~pass[j].hasErrors
                 ELSE Len(pass),
                 LAMBDA stop :
                    IF \E i \in 1..Len(pass) : pass[i].threw
                    THEN [data |-> <<>>, errors |-> <<>>, threw |-> TRUE]
                    ELSE [data |-> AllData(SubSeq(pass, 1, stop)),
                          errors |-> AllErrors(SubSeq(pass, 1, stop)),
                          threw |-> FALSE]))

\* The loop over the data rows lines[1], lines[2], ...: data holds the rows
\* of the passes without an error and errors the errors of all passes, both
\* in the order of the lines; a pass that throws ends parseCSV.
ParseRows(lines, headerLen, headerMap, month, year, tz) ==
    Bind([i \in 1..(Len(lines) - 1) |->
             ParseRow(lines[i + 1], i, headerLen, headerMap, month, year, tz)] \o <<>>,
         LAMBDA pass :
            IF \E i \in 1..Len(pass) : pass[i].threw
            THEN [data |-> <<>>, errors |-> <<>>, threw |-> TRUE]
            ELSE [data |-> AllData(pass), errors |-> AllErrors(pass), threw |-> FALSE])

\* The result of parseCSV for the lines of the trimmed text.
ParseLines(lines, header, month, year, tz) ==
    Bind(HeaderMap(header), LAMBDA headerMap :
        IF Len(lines) < 2
        THEN [data |-> <<>>,
              errors |-> <<ParseError(0, "CSV must have at least a header row and one data row", <<>>)>>,
              threw |-> FALSE]
        ELSE IF DOMAIN headerMap = {}
        THEN [data |-> <<>>,
              errors |-> <<[ParseError(0, "No recognized columns found", <<>>)
                               EXCEPT !.cells = header]>>,
              threw |-> FALSE]
        ELSE ParseRows(lines, Len(header), headerMap, month, year, tz))

\* parseCSV(content, month, year) on a host in time zone tz: the rows and
\* the errors returned, or threw when the call ends in an exception.
parseCSV(content, month, year, tz) ==
    Bind(split(trim(content), NL), LAMBDA lines :
        Bind(HeaderCells(lines[1]), LAMBDA header :
            ParseLines(lines, header, month, year, tz)))

\* ------------------------------------------------------------------------
\* The texts, months, years, users and failures of the model
\* ------------------------------------------------------------------------

\* Sequences over S of length at most n.
RECURSIVE SeqsUpTo(_, _)
SeqsUpTo(S, n) ==
    IF n = 0 THEN {<<>>}
    ELSE LET shorter == SeqsUpTo(S, n - 1)
         IN  shorter \cup { Append(q, x) : q \in { t \in shorter : Len(t) = n - 1 }, x \in S }

\* A line of tab-separated cells, and a text of lines.
Line(cells) == join(cells, <<TAB>>)
Text(lines) == join(lines, <<NL>>)

\* Header lines: plain names; names in other case with blanks around them
\* and a synonym; unknown names only; a name Object.prototype has; a
\* single known column.
HeaderLines ==
    { Line(<< <<"i", "t", "e", "m">>, <<"v", "e", "n", "d", "o", "r">> >>),
      Line(<< <<" ", "I", "t", "e", "m", " ">>, <<"P", "R", "I", "C", "E">>,
              <<"D", "a", "t", "e">>, <<"c", "a", "t">> >>),
      Line(<< <<"f", "o", "o">>, <<"b", "a", "r">> >>),
      Line(<< <<"c", "o", "n", "s", "t", "r", "u", "c", "t", "o", "r">> >>),
      Line(<< <<"f", "o", "o">>, <<"p", "r", "i", "c", "e">> >>) }

\* Data lines: full and short rows, empty and blank cells, prices that are
\* zero, negative, followed by letters or infinite, days in and out of
\* range, followed by letters or not a number.
DataLines ==
    { Line(<< <<"A">>, <<"5">>, <<"0">> >>),
      Line(<< <<"A">> >>),
      Line(<< <<" ">>, <<>>, <<"-", "3">> >>),
      Line(<< <<"B">>, <<"0">>, <<"1", "5">>, <<"x", ",", " ", "y">> >>),
      Line(<< <<"B">>, <<"-", "5">>, <<"3", "1">>, <<>> >>),
      Line(<< <<"B">>, <<"1", "2", "x">>, <<"3", "2">> >>),
      Line(<< <<"C">>, <<"2">>, <<"x">> >>),
      Line(<< <<"7">>, <<"I", "n", "f", "i", "n", "i", "t", "y">>, <<"1", "x">> >>) }

\* The texts a chosen file holds: a header line and up to MaxDataLines data
\* lines, and the texts of one data line after an empty first line.
Contents ==
    { Text(<<h>> \o ls) : h \in HeaderLines, ls \in SeqsUpTo(DataLines, MaxDataLines) }
    \cup { <<NL>> \o Text(<<h, l>>) : h \in HeaderLines, l \in DataLines }

\* The texts typed into the import modal of the full page model: the first
\* lines of two sample files with the columns item, price and categories.
SampleHeader ==
    Line(<< <<"i", "t", "e", "m">>, <<"p", "r", "i", "c", "e">>,
            <<"c", "a", "t", "e", "g", "o", "r", "y">> >>)

SampleLines ==
    << Line(<< <<"A">>, <<"5">>, <<"x", ",", " ", "y">> >>),
       Line(<< <<"B">>, <<"0">>, <<>> >>),
       Line(<< <<"C">>, <<"1", ".", "5">>, <<" ", ",", "z">> >>) >>

SampleFile(first, n) ==
    Text(<<SampleHeader>> \o [k \in 1..n |-> SampleLines[((first + k - 2) % Len(SampleLines)) + 1]])

RunContents == { SampleFile(first, n) : first \in 1..2, n \in 1..MaxRunLines }

\* The options of the month select and the values typed as the year.
MonthChoices == { <<"2">> }
YearChoices == { <<"2", "0", "2", "4">>, <<>> }

\* The users the list-users request may return, and the value of the user
\* select ('' is the "Select a user" option).
UserIds == {"u1"}
NoUser == ""
UserLists == { {"u1"}, {} }

\* The categories and the expenses the list requests may return.
CategoryX == [category_id |-> "c1", category_name |-> <<"x">>]
CategoryZ == [category_id |-> "c2", category_name |-> <<"Z">>]

ExpenseTea ==
    [expense_id |-> "e1", item |-> <<"T", "e", "a">>, vendor |-> <<"S", "h", "o", "p">>,
     username |-> <<"a", "n", "n">>, payment_method |-> <<"c", "a", "s", "h">>,
     categories |-> <<CategoryX>>, user_id |-> "u1", price |-> 450]
ExpenseBus ==
    [expense_id |-> "e2", item |-> <<"B", "u", "s">>, vendor |-> <<"C", "i", "t", "y">>,
     username |-> <<"a", "n", "n">>, payment_method |-> <<>>,
     categories |-> <<>>, user_id |-> "u1", price |-> 1200]

\* What the three requests of fetchData are fulfilled with when the page
\* refreshes after an import.
RunLoads ==
    { [expenses |-> <<>>, users |-> {"u1"}, categories |-> <<CategoryX>>],
      [expenses |-> <<>>, users |-> {}, categories |-> <<>>] }

\* What a rejected create-expense request throws: an error object with a
\* response property or without one, and the response's status and detail
\* when it has them (0 and Undefined stand for undefined).
CreateErrors ==
    { [response |-> TRUE, status |-> 500, detail |-> Undefined, message |-> "Request failed with status code 500"],
      [response |-> TRUE, status |-> 422, detail |-> "Price must be greater than 0", message |-> "Request failed with status code 422"],
      [response |-> TRUE, status |-> 0, detail |-> Undefined, message |-> "Network Error"],
      [response |-> FALSE, status |-> 0, detail |-> Undefined, message |-> "Network Error"] }

\* What outcomes records as the error of a request that was fulfilled.
NoRejection == [response |-> FALSE, status |-> 0, detail |-> Undefined, message |-> ""]

\* ------------------------------------------------------------------------
\* State of the Expenses component
\* ------------------------------------------------------------------------

VARIABLES
    csvImportData,   \* useState: csvContent, month, year, parsedData, errors
    showCSVModal,    \* useState: the import modal is shown
    isImporting,     \* useState
    importProgress,  \* useState: current, total
    error,           \* useState: the page's error message, or null
    loading,         \* useState
    users,           \* useState: the ids of the users loaded
    formData,        \* useState: user_id of the user select
    tz,              \* the host's time zone
    reader,          \* the FileReader of handleFileUpload that has not fired
    pc,              \* where the activation of handleImportExpenses stands
    run,             \* its closure and locals
    createLog,       \* the create-expense requests the run has issued
    inFlight,        \* the rows whose create-expense request is not settled
    outcomes,        \* how the settled requests of the run ended, in order
    fetchLog,        \* the fetchData calls of the run
    attachLog,       \* the attach-category requests (expenseApi.addCategory)
    expenses,        \* useState: the expenses loaded
    categories,      \* useState: the categories loaded
    selectedExpenses,\* useState: the Set of selected ids, in insertion order
    searchTerm,      \* useState
    categoryFilter,  \* useState
    vendorFilter,    \* useState
    paymentMethodFilter, \* useState
    isDeleting,      \* useState
    bulk,            \* the activation of handleBulkDelete: closure and locals
    deleteLog,       \* the delete requests issued (expenseApi.delete)
    pendingDeletes,  \* the ids whose handleDelete awaits its request
    refreshes,       \* the fetchData calls nobody awaits that are not settled
    repeated,        \* history: the run started last repeats the run before it
    page,            \* the page component that is mounted
    budgets,         \* useState of Budgets: the budgets loaded
    wishlistItems,   \* useState of Wishlist: the items loaded
    showModal,       \* useState: the form modal is shown
    editing,         \* useState: editingExpense, editingCategory, editingBudget, editingItem
    submit,          \* the activation of handleSubmit: closure and position
    saveLog,         \* the create and update requests issued
    typed,           \* history: the keys pressed in the price field of the form
    lastConfirm      \* what the last confirm() dialog was about and returned

vars == <<csvImportData, showCSVModal, isImporting, importProgress, error, loading,
          users, formData, tz, reader, pc, run, createLog, inFlight, outcomes,
          fetchLog, attachLog, expenses, categories, selectedExpenses, searchTerm,
          categoryFilter, vendorFilter, paymentMethodFilter, isDeleting, bulk,
          deleteLog, pendingDeletes, refreshes, repeated, page, budgets,
          wishlistItems, showModal, editing, submit, saveLog, typed, lastConfirm>>

modalVars == <<csvImportData, showCSVModal>>
runVars == <<isImporting, importProgress, error, loading, users, pc, run,
             createLog, inFlight, outcomes, fetchLog>>

loadedVars == <<expenses, categories, selectedExpenses>>
filterVars == <<searchTerm, categoryFilter, vendorFilter, paymentMethodFilter>>
deleteVars == <<isDeleting, bulk, deleteLog, pendingDeletes, refreshes>>
pageVars == <<page, budgets, wishlistItems, lastConfirm>>
formVars == <<showModal, editing, submit, saveLog, typed>>
importVars == <<csvImportData, showCSVModal, isImporting, importProgress, tz, reader, pc,
                run, createLog, inFlight, outcomes, fetchLog, repeated>>

\* A value of the error state: null, a fixed message, or the report of a
\* run (the message with its counts and the errors joined into it).
Message(kind) == [kind |-> kind, successful |-> 0, failed |-> 0, errors |-> <<>>]
Null == Message("null")

Pages == {"expenses", "categories", "budgets", "wishlist"}

\* null as the value of editingExpense, editingCategory, editingBudget and
\* editingItem.
NoEntity == [id |-> ""]

\* The form of each page as resetForm sets it (the fields the model
\* follows: the others are passed to the request as they are).
resetForm(p) ==
    CASE p = "expenses" ->
            [user_id |-> NoUser, item |-> <<>>, price |-> <<>>,
             selected_categories |-> <<>>, new_categories |-> <<>>]
      [] p = "categories" -> [category_name |-> <<>>]
      [] p = "budgets" ->
            [user_id |-> NoUser, category_id |-> "", current_spend |-> <<>>,
             future_spend |-> <<>>, max_spend |-> <<>>]
      [] p = "wishlist" -> [user_id |-> NoUser, item |-> <<>>, price |-> <<>>]

NoConfirm == [about |-> "", answer |-> FALSE]
NoSubmit == [pc |-> "idle", attach |-> <<>>, k |-> 0, failed |-> 0, result |-> "none"]
NoBulk == [ids |-> <<>>, i |-> 0, successCount |-> 0, errorCount |-> 0,
           errors |-> <<>>, pc |-> "idle"]
NoReader == [pending |-> FALSE, content |-> <<>>, month |-> <<>>, year |-> <<>>]
NoRun == [rows |-> <<>>, selectedUser |-> NoUser, i |-> 0, successCount |-> 0,
          errorCount |-> 0, errors |-> <<>>, ended |-> "never"]

\* The initial value of csvImportData, and the value the modal is reset to.
EmptyImportData ==
    [csvContent |-> <<>>, month |-> CurrentMonth, year |-> CurrentYear,
     parsedData |-> <<>>, errors |-> <<>>]

\* The page after it has mounted and its first fetchData has loaded the
\* users: everything else is as useState initialises it.
InitPage ==
    /\ csvImportData = EmptyImportData
    /\ isImporting = FALSE
    /\ importProgress = [current |-> 0, total |-> 0]
    /\ error = Null
    /\ loading = FALSE
    /\ users = UserIds
    /\ page = "expenses"
    /\ formData = resetForm("expenses")
    /\ budgets = <<>>
    /\ wishlistItems = <<>>
    /\ showModal = FALSE
    /\ editing = NoEntity
    /\ submit = NoSubmit
    /\ saveLog = <<>>
    /\ typed = <<>>
    /\ lastConfirm = NoConfirm
    /\ tz \in TimeZones
    /\ pc = "idle"
    /\ run = NoRun
    /\ createLog = <<>>
    /\ inFlight = {}
    /\ outcomes = <<>>
    /\ fetchLog = <<>>
    /\ attachLog = <<>>
    /\ searchTerm = <<>>
    /\ categoryFilter = ""
    /\ vendorFilter = <<>>
    /\ paymentMethodFilter = <<>>
    /\ selectedExpenses = <<>>
    /\ isDeleting = FALSE
    /\ bulk = NoBulk
    /\ deleteLog = <<>>
    /\ pendingDeletes = {}
    /\ refreshes = 0
    /\ repeated = FALSE

Init ==
    /\ InitPage
    /\ showCSVModal = FALSE
    /\ reader = NoReader
    /\ expenses = <<>>
    /\ categories = <<>>

\* ------------------------------------------------------------------------
\* The handlers of the import modal
\* ------------------------------------------------------------------------

\* onClick of the Import CSV button: setShowCSVModal(true).
OpenCSVModal ==
    /\ ~loading
    /\ ~showCSVModal
    /\ showCSVModal' = TRUE
    /\ UNCHANGED <<csvImportData, isImporting, importProgress, error, loading, users,
                   formData, tz, reader, pc, run, createLog, inFlight, outcomes,
                   fetchLog, attachLog>>
    /\ UNCHANGED <<loadedVars, filterVars, deleteVars, repeated, pageVars, formVars>>

\* parseCSV of the texts typed into the textarea with the month and year the
\* modal opens with, computed once for each text and time zone.
ParsedTexts ==
    [c \in RunContents |-> [z \in TimeZones |-> parseCSV(c, CurrentMonth, CurrentYear, z)]]

\* parseCSV(content) of the render that saw month and year.
ParseTyped(content, month, year, zone) ==
    IF content \in RunContents /\ month = CurrentMonth /\ year = CurrentYear
    THEN ParsedTexts[content][zone]
    ELSE parseCSV(content, month, year, zone)

\* handleCSVContentChange(content) of the render that saw month and year: the
\* text is parsed with that month and year, and text, rows and errors are
\* stored over the latest state; an exception of parseCSV stores nothing.
StoreContent(content, month, year) ==
    csvImportData' =
        Bind(ParseTyped(content, month, year, tz), LAMBDA r :
            IF r.threw THEN csvImportData
            ELSE [csvImportData EXCEPT !.csvContent = content,
                                       !.parsedData = r.data,
                                       !.errors = r.errors])

\* handleDateChange(month, year): the stored text is parsed again.
StoreDate(month, year) ==
    csvImportData' =
        Bind(parseCSV(csvImportData.csvContent, month, year, tz), LAMBDA r :
            IF r.threw THEN csvImportData
            ELSE [csvImportData EXCEPT !.month = month,
                                       !.year = year,
                                       !.parsedData = r.data,
                                       !.errors = r.errors])

\* onChange of the textarea.
handleCSVContentChange(content) ==
    /\ ~loading
    /\ showCSVModal
    /\ StoreContent(content, csvImportData.month, csvImportData.year)
    /\ UNCHANGED <<showCSVModal, formData, tz, reader, attachLog>>
    /\ UNCHANGED runVars
    /\ UNCHANGED <<loadedVars, filterVars, deleteVars, repeated, pageVars, formVars>>

\* onChange of the month select and of the year input.
handleDateChange(month, year) ==
    /\ ~loading
    /\ showCSVModal
    /\ StoreDate(month, year)
    /\ UNCHANGED <<showCSVModal, formData, tz, reader, attachLog>>
    /\ UNCHANGED runVars
    /\ UNCHANGED <<loadedVars, filterVars, deleteVars, repeated, pageVars, formVars>>

\* handleFileUpload: a FileReader starts to read the chosen file; its onload
\* closes over the handleCSVContentChange of this render.
handleFileUpload(content) ==
    /\ ~loading
    /\ showCSVModal
    /\ ~reader.pending
    /\ reader' = [pending |-> TRUE, content |-> content,
                  month |-> csvImportData.month, year |-> csvImportData.year]
    /\ UNCHANGED <<csvImportData, showCSVModal, formData, tz, attachLog>>
    /\ UNCHANGED runVars
    /\ UNCHANGED <<loadedVars, filterVars, deleteVars, repeated, pageVars, formVars>>

\* reader.onload: handleCSVContentChange(content) of the render that chose
\* the file.
ReaderOnload ==
    /\ reader.pending
    /\ StoreContent(reader.content, reader.month, reader.year)
    /\ reader' = NoReader
    /\ UNCHANGED <<showCSVModal, formData, tz, attachLog>>
    /\ UNCHANGED runVars
    /\ UNCHANGED <<loadedVars, filterVars, deleteVars, repeated, pageVars, formVars>>

\* onChange of the user select of the modal.
SelectUser(id) ==
    /\ ~loading
    /\ showCSVModal
    /\ id \in users \cup {NoUser}
    /\ formData' = [formData EXCEPT !.user_id = id]
    /\ UNCHANGED <<csvImportData, showCSVModal, tz, reader, attachLog>>
    /\ UNCHANGED runVars
    /\ UNCHANGED <<loadedVars, filterVars, deleteVars, repeated, pageVars, formVars>>

\* onClick of the Cancel button (disabled while isImporting).
CancelCSVModal ==
    /\ ~loading
    /\ showCSVModal
    /\ ~isImporting
    /\ showCSVModal' = FALSE
    /\ csvImportData' = EmptyImportData
    /\ UNCHANGED <<formData, tz, reader, attachLog>>
    /\ UNCHANGED runVars
    /\ UNCHANGED <<loadedVars, filterVars, deleteVars, repeated, pageVars, formVars>>

\* ------------------------------------------------------------------------
\* handleImportExpenses
\* ------------------------------------------------------------------------

\* row.categories.split(',').map(cat => cat.trim()).filter(cat => cat.length > 0)
NonEmptyText(t) == Len(t) > 0

\* A variant of TrimmedNonEmpty that does not trim the names.
NonEmptyUntrimmed(parts) == SelectSeq(parts, NonEmptyText)

\* .map(cat => cat.trim()).filter(cat => cat.length > 0)
TrimmedNonEmpty(parts) ==
    SelectSeq([k \in 1..Len(parts) |-> trim(parts[k])], NonEmptyText)

\* newCategories of a row: empty unless row.categories has a character
\* that is not white space.
NewCategories(text) ==
    IF text # <<>> /\ trim(text) # <<>>
    THEN TrimmedNonEmpty(split(text, ","))
    ELSE <<>>

\* value || undefined for a text.
OrUndefined(text) == IF text = <<>> THEN <<"undefined">> ELSE text

\* A variant of ExpenseData that sends no category names.
ExpenseDataWithoutCategories(userId, row) ==
    [user_id |-> userId,
     item |-> row.item,
     vendor |-> row.vendor,
     price |-> row.price,
     date_purchased |-> row.date_purchased,
     payment_method |-> OrUndefined(row.payment_method),
     notes |-> OrUndefined(row.notes),
     new_categories |-> <<>>]

\* A variant of ExpenseData that matches the names against the categories
\* loaded and sends only the names that are not among them.
ExpenseDataOnlyUnknownNames(userId, row) ==
    [user_id |-> userId,
     item |-> row.item,
     vendor |-> row.vendor,
     price |-> row.price,
     date_purchased |-> row.date_purchased,
     payment_method |-> OrUndefined(row.payment_method),
     notes |-> OrUndefined(row.notes),
     new_categories |->
        SelectSeq(NewCategories(row.categories),
                  LAMBDA n : \A c \in 1..Len(categories) : categories[c].category_name # n)]

\* expenseData: the body of the create-expense request of a row.
ExpenseData(userId, row) ==
    [user_id |-> userId,
     item |-> row.item,
     vendor |-> row.vendor,
     price |-> row.price,
     date_purchased |-> row.date_purchased,
     payment_method |-> OrUndefined(row.payment_method),
     notes |-> OrUndefined(row.notes),
     new_categories |-> NewCategories(row.categories)]

\* A variant of FailureReason that tests for any status before it tests
\* for the status 500.
FailureReasonStatusFirst(e) ==
    IF e.response
    THEN IF e.status # 0
         THEN [text |-> "HTTP status: detail", status |-> e.status,
               detail |-> IF e.detail = Undefined THEN "Unknown error" ELSE e.detail]
         ELSE [text |-> "Network error - check backend connection",
               status |-> 0, detail |-> Undefined]
    ELSE [text |-> e.message, status |-> 0, detail |-> Undefined]

\* The reason the catch block gives for what a create-expense request threw.
FailureReason(e) ==
    IF e.response
    THEN IF e.status = 500
         THEN [text |-> "Server error (500) - expense may have been created but with issues",
               status |-> 500, detail |-> Undefined]
         ELSE IF e.status # 0
         THEN [text |-> "HTTP status: detail", status |-> e.status,
               detail |-> IF e.detail = Undefined THEN "Unknown error" ELSE e.detail]
         ELSE [text |-> "Network error - check backend connection",
               status |-> 0, detail |-> Undefined]
    ELSE [text |-> e.message, status |-> 0, detail |-> Undefined]

\* A variant of RowFailure that names the row by its 0-based index.
RowFailureZeroBased(i, row, e) == [row |-> i, item |-> row.item, reason |-> FailureReason(e)]

\* errorMessage: `Row ${i + 1} (${row.item}): ` and the reason.
RowFailure(i, row, e) == [row |-> i + 1, item |-> row.item, reason |-> FailureReason(e)]

\* The catch block of the loop: errorCount++ and errors.push(errorMessage).
CatchRow(r, e) ==
    [r EXCEPT !.errorCount = @ + 1,
              !.errors = Append(@, RowFailure(r.i, r.rows[r.i + 1], e))]

\* After await expenseApi.create: successCount++.
CountSuccess(r) == [r EXCEPT !.successCount = @ + 1]

\* A variant of LoopContinues that skips the rows of a run that repeats the
\* run before it.
LoopStopsWhenRepeated(i, n) == i < n /\ ~repeated

\* The condition of the for loop: i < csvImportData.parsedData.length.
LoopContinues(i, n) == i < n

\* A variant of AfterFailure that leaves the loop at the first failure.
BreakAfterFailure(i, n) == n

\* The index the loop goes on with after the catch block (continue; i++).
AfterFailure(i, n) == i + 1

\* A variant of PcAfterCreateCall without the await: the activation goes on
\* to the delay while the request is in flight.
PcWithoutAwait == "delay"

\* Where the activation stands after it has called expenseApi.create: the
\* call is awaited.
PcAfterCreateCall == "awaitCreate"

\* The delay follows a successful request unless the row is the last:
\* i < csvImportData.parsedData.length - 1.
DelayFollows(i, n) == i < n - 1

\* A variant of CallFetchData that refreshes only after a run without
\* errors.
CallFetchDataUnlessErrors(log, r, unsettled) ==
    IF r.errorCount > 0 THEN log ELSE Append(log, [unsettled |-> unsettled])

\* await fetchData() after the loop: the call is logged with the rows whose
\* request was not settled when it was made.
CallFetchData(log, r, unsettled) == Append(log, [unsettled |-> unsettled])

\* A variant of ClearsInput that clears the input when any row succeeded.
ClearsInputOnAnySuccess(r) == r.successCount > 0

\* The else branch after the loop (the modal is closed and the import data
\* reset) is taken when errorCount > 0 is false.
ClearsInput(r) == ~(r.errorCount > 0)

\* The message of setError at the end of a run with errors.
ImportErrors(r) ==
    [kind |-> "Import completed with errors", successful |-> r.successCount,
     failed |-> r.errorCount, errors |-> r.errors]

\* A variant of Finally that leaves isImporting set.
FinallySkipped ==
    [isImporting |-> TRUE, importProgress |-> [current |-> 0, total |-> 0]]

\* The finally block of handleImportExpenses.
Finally ==
    [isImporting |-> FALSE, importProgress |-> [current |-> 0, total |-> 0]]

\* The loop at index r.i: either the next pass up to its await of
\* expenseApi.create (the progress is set, the request built and sent), or
\* the end of the loop and the call of fetchData up to its await (loading
\* is set, the error cleared, the lists requested).  err is the page error,
\* unsettled the requests in flight, and sent and fetched the requests and
\* fetchData calls of the run when the loop gets here.
LoopStep(r, err, unsettled, sent, fetched) ==
    IF LoopContinues(r.i, Len(r.rows))
    THEN /\ importProgress' = [current |-> r.i + 1, total |-> Len(r.rows)]
         /\ createLog' = Append(sent,
                                [row |-> r.i, data |-> ExpenseData(r.selectedUser, r.rows[r.i + 1])])
         /\ inFlight' = unsettled \cup {r.i}
         /\ pc' = PcAfterCreateCall
         /\ run' = r
         /\ error' = err
         /\ fetchLog' = fetched
         /\ UNCHANGED loading
    ELSE /\ loading' = TRUE
         /\ error' = Null
         /\ fetchLog' = CallFetchData(fetched, r, unsettled)
         /\ inFlight' = unsettled
         /\ pc' = "awaitFetch"
         /\ run' = r
         /\ createLog' = sent
         /\ UNCHANGED importProgress

\* The run that starts with rows for the user repeats the last run: that
\* run was for the same user and rows, sent a request for every row, and
\* every request was fulfilled.
RepeatsLastRun(rows, userId) ==
    /\ run.ended = "completed"
    /\ run.rows = rows
    /\ run.selectedUser = userId
    /\ Len(createLog) = Len(rows)
    /\ Len(outcomes) = Len(rows)
    /\ \A k \in 1..Len(outcomes) : outcomes[k].ok

\* onClick of the Import button (rendered while not isImporting, enabled
\* when there are parsed rows and a user is selected): handleImportExpenses
\* up to its first await, or to its return when the selected user is not
\* among the users loaded.
ClickImport ==
    /\ ~loading
    /\ showCSVModal
    /\ ~isImporting
    /\ pc = "idle"
    /\ csvImportData.parsedData # <<>>
    /\ formData.user_id # NoUser
    /\ outcomes' = <<>>
    /\ IF formData.user_id \in users
       THEN /\ isImporting' = TRUE
            /\ LoopStep([rows |-> csvImportData.parsedData,
                         selectedUser |-> formData.user_id,
                         i |-> 0, successCount |-> 0, errorCount |-> 0, errors |-> <<>>,
                         ended |-> "running"],
                        Null, {}, <<>>, <<>>)
       ELSE /\ error' = Message("Please select a user")
            /\ isImporting' = Finally.isImporting
            /\ importProgress' = Finally.importProgress
            /\ run' = [NoRun EXCEPT !.rows = csvImportData.parsedData, !.ended = "noUser"]
            /\ createLog' = <<>>
            /\ inFlight' = {}
            /\ fetchLog' = <<>>
            /\ pc' = "idle"
            /\ UNCHANGED loading
    /\ UNCHANGED <<csvImportData, showCSVModal, users, formData, tz, reader, attachLog>>
    /\ repeated' = RepeatsLastRun(csvImportData.parsedData, formData.user_id)
    /\ UNCHANGED <<loadedVars, filterVars, deleteVars, pageVars, formVars>>

\* The create-expense request of the row the loop awaits is fulfilled:
\* successCount++, then the delay unless the row is the last.
CreateResolves ==
    /\ pc = "awaitCreate"
    /\ run.i \in inFlight
    /\ outcomes' = Append(outcomes, [row |-> run.i, ok |-> TRUE, err |-> NoRejection])
    /\ IF DelayFollows(run.i, Len(run.rows))
       THEN /\ pc' = "delay"
            /\ run' = CountSuccess(run)
            /\ inFlight' = inFlight \ {run.i}
            /\ UNCHANGED <<importProgress, createLog, error, loading, fetchLog>>
       ELSE LoopStep([CountSuccess(run) EXCEPT !.i = @ + 1], error, inFlight \ {run.i},
                     createLog, fetchLog)
    /\ UNCHANGED <<csvImportData, showCSVModal, isImporting, users, formData, tz,
                   reader, attachLog>>
    /\ UNCHANGED <<loadedVars, filterVars, deleteVars, repeated, pageVars, formVars>>

\* The create-expense request of the row the loop awaits is rejected with
\* e: the catch block, then the next pass of the loop.
CreateRejects(e) ==
    /\ pc = "awaitCreate"
    /\ run.i \in inFlight
    /\ outcomes' = Append(outcomes, [row |-> run.i, ok |-> FALSE, err |-> e])
    /\ LoopStep([CatchRow(run, e) EXCEPT !.i = AfterFailure(run.i, Len(run.rows))],
                error, inFlight \ {run.i}, createLog, fetchLog)
    /\ UNCHANGED <<csvImportData, showCSVModal, isImporting, users, formData, tz,
                   reader, attachLog>>
    /\ UNCHANGED <<loadedVars, filterVars, deleteVars, repeated, pageVars, formVars>>

\* The timer of the delay between two requests fires.
DelayElapses ==
    /\ pc = "delay"
    /\ LoopStep([run EXCEPT !.i = @ + 1], error, inFlight, createLog, fetchLog)
    /\ UNCHANGED <<csvImportData, showCSVModal, isImporting, users, formData, tz,
                   reader, outcomes, attachLog>>
    /\ UNCHANGED <<loadedVars, filterVars, deleteVars, repeated, pageVars, formVars>>

\* The requests of fetchData are settled (fulfilled with the users loaded,
\* or rejected: fetchData catches that itself); then the rest of
\* handleImportExpenses: the report or the reset of the modal, and the
\* finally block.
FetchSettles(ok, loaded) ==
    /\ pc = "awaitFetch"
    /\ loading' = FALSE
    /\ users' = IF ok THEN loaded.users ELSE users
    /\ expenses' = IF ok THEN loaded.expenses ELSE expenses
    /\ categories' = IF ok THEN loaded.categories ELSE categories
    /\ selectedExpenses' = IF ok THEN <<>> ELSE selectedExpenses
    /\ IF ClearsInput(run)
       THEN /\ error' = Null
            /\ showCSVModal' = FALSE
            /\ csvImportData' = EmptyImportData
       ELSE /\ error' = ImportErrors(run)
            /\ UNCHANGED <<showCSVModal, csvImportData>>
    /\ isImporting' = Finally.isImporting
    /\ importProgress' = Finally.importProgress
    /\ pc' = "idle"
    /\ run' = [run EXCEPT !.ended = "completed"]
    /\ UNCHANGED <<formData, tz, reader, createLog, inFlight, outcomes, fetchLog,
                   attachLog>>
    /\ UNCHANGED <<filterVars, deleteVars, repeated, pageVars, formVars>>

\* ------------------------------------------------------------------------
\* The page
\* ------------------------------------------------------------------------

\* The page with its import modal: the text typed, the user chosen, and the
\* import run.
Next ==
    \/ OpenCSVModal
    \/ \E c \in RunContents : handleCSVContentChange(c)
    \/ \E id \in UserIds \cup {NoUser} : SelectUser(id)
    \/ CancelCSVModal
    \/ ClickImport
    \/ CreateResolves
    \/ \E e \in CreateErrors : CreateRejects(e)
    \/ DelayElapses
    \/ \E ok \in BOOLEAN, loaded \in RunLoads : FetchSettles(ok, loaded)

Spec == Init /\ [][Next]_vars

\* The import modal with a chosen file being read, while the month and the
\* year are changed.
InitParse ==
    /\ InitPage
    /\ showCSVModal = TRUE
    /\ \E c \in Contents :
          reader = [pending |-> TRUE, content |-> c,
                    month |-> CurrentMonth, year |-> CurrentYear]
    /\ expenses = <<>>
    /\ categories = <<>>

NextParse ==
    \/ ReaderOnload
    \/ \E m \in MonthChoices : handleDateChange(m, csvImportData.year)
    \/ \E y \in YearChoices : handleDateChange(csvImportData.month, y)

ParseSpec == InitParse /\ [][NextParse]_vars

\* The page when every request that was sent is settled in the end and the
\* timer of the delay fires.
LiveSpec ==
    /\ Spec
    /\ WF_<<pc, outcomes>>(CreateResolves \/ \E e \in CreateErrors : CreateRejects(e))
    /\ WF_<<pc, outcomes>>(DelayElapses)
    /\ WF_<<pc, outcomes>>(\E ok \in BOOLEAN, loaded \in RunLoads : FetchSettles(ok, loaded))

\* ------------------------------------------------------------------------
\* The lists of the pages: refresh, filters, selection and deletion
\* ------------------------------------------------------------------------

\* What the list requests of fetchData are fulfilled with on each page.
Loaded(es, cs, bs, ws) ==
    [expenses |-> es, users |-> {"u1"}, categories |-> cs, budgets |-> bs,
     wishlistItems |-> ws]

BudgetFood ==
    [budget_id |-> "b1", user_id |-> "u1", category_id |-> "c1",
     current_spend |-> 500, future_spend |-> 0, max_spend |-> 900]
WishPhone == [wish_id |-> "w1", user_id |-> "u1", item |-> <<"P", "h", "o", "n", "e">>,
              price |-> 900]
WishBike == [wish_id |-> "w2", user_id |-> "u1", item |-> <<"B", "i", "k", "e">>,
             price |-> 725]

PageLoads(p) ==
    CASE p = "expenses" ->
            { Loaded(<<ExpenseTea, ExpenseBus>>, <<CategoryX, CategoryZ>>, <<>>, <<>>),
              Loaded(<<ExpenseBus>>, <<CategoryX, CategoryZ>>, <<>>, <<>>) }
      [] p = "categories" ->
            { Loaded(<<>>, <<CategoryX, CategoryZ>>, <<>>, <<>>),
              Loaded(<<>>, <<CategoryZ>>, <<>>, <<>>) }
      [] p = "budgets" ->
            { Loaded(<<>>, <<CategoryX>>, <<BudgetFood>>, <<>>),
              Loaded(<<>>, <<CategoryX>>, <<>>, <<>>) }
      [] p = "wishlist" ->
            { Loaded(<<>>, <<>>, <<>>, <<WishPhone, WishBike>>),
              Loaded(<<>>, <<>>, <<>>, <<WishBike>>) }

\* The states set from what fetchData loaded (and clearSelection on the
\* Expenses page); a rejected request leaves them as they are.
SetLoaded(ok, loaded) ==
    /\ expenses' = IF ok /\ page = "expenses" THEN loaded.expenses ELSE expenses
    /\ users' = IF ok /\ page # "categories" THEN loaded.users ELSE users
    /\ categories' = IF ok /\ page # "wishlist" THEN loaded.categories ELSE categories
    /\ budgets' = IF ok /\ page = "budgets" THEN loaded.budgets ELSE budgets
    /\ wishlistItems' = IF ok /\ page = "wishlist" THEN loaded.wishlistItems
                        ELSE wishlistItems
    /\ selectedExpenses' = IF ok /\ page = "expenses" THEN <<>> ELSE selectedExpenses

\* The message of the catch block of each page's fetchData.
FailedToLoad(p) ==
    IF p = "categories" THEN "Failed to load categories" ELSE "Failed to load data"

\* A fetchData() that its caller does not await is settled.
RefreshSettles(ok, loaded) ==
    /\ refreshes > 0
    /\ refreshes' = refreshes - 1
    /\ SetLoaded(ok, loaded)
    /\ error' = IF ok THEN error ELSE Message(FailedToLoad(page))
    /\ loading' = FALSE
    /\ UNCHANGED <<importVars, formData, attachLog, filterVars, isDeleting, bulk,
                   deleteLog, pendingDeletes, page, lastConfirm, formVars>>

\* text.includes(term)
includes(text, term) ==
    \E k \in 0..(Len(text) - Len(term)) : SubSeq(text, k + 1, k + Len(term)) = term

\* The predicate of filteredExpenses.
MatchesFilters(expense) ==
    /\ \/ includes(toLowerCase(expense.item), toLowerCase(searchTerm))
       \/ includes(toLowerCase(expense.vendor), toLowerCase(searchTerm))
       \/ includes(toLowerCase(expense.username), toLowerCase(searchTerm))
       \/ \E c \in 1..Len(expense.categories) :
             includes(toLowerCase(expense.categories[c].category_name),
                      toLowerCase(searchTerm))
    /\ categoryFilter = "" \/
          \E c \in 1..Len(expense.categories) :
             expense.categories[c].category_id = categoryFilter
    /\ vendorFilter = <<>> \/ expense.vendor = vendorFilter
    /\ paymentMethodFilter = <<>> \/ expense.payment_method = paymentMethodFilter

filteredExpenses == SelectSeq(expenses, MatchesFilters)

\* The ids of the rows a page displays (the search terms of the Categories,
\* Budgets and Wishlist pages stay empty, so these display every entity).
DisplayedIds(p) ==
    CASE p = "expenses" ->
            { filteredExpenses[k].expense_id : k \in 1..Len(filteredExpenses) }
      [] p = "categories" -> { categories[k].category_id : k \in 1..Len(categories) }
      [] p = "budgets" -> { budgets[k].budget_id : k \in 1..Len(budgets) }
      [] p = "wishlist" -> { wishlistItems[k].wish_id : k \in 1..Len(wishlistItems) }

has(set, id) == \E k \in 1..Len(set) : set[k] = id

\* toggleExpenseSelection(expenseId): onChange of the checkbox of a row.
toggleExpenseSelection(id) ==
    /\ page = "expenses"
    /\ ~loading
    /\ id \in DisplayedIds("expenses")
    /\ selectedExpenses' =
          IF has(selectedExpenses, id)
          THEN SelectSeq(selectedExpenses, LAMBDA x : x # id)
          ELSE Append(selectedExpenses, id)
    /\ UNCHANGED <<importVars, error, loading, users, formData, attachLog, expenses,
                   categories, filterVars, deleteVars, pageVars, formVars>>

\* toggleSelectAll: onChange of the checkbox of the table head.
toggleSelectAll ==
    /\ page = "expenses"
    /\ ~loading
    /\ selectedExpenses' =
          IF Len(selectedExpenses) = Len(filteredExpenses)
          THEN <<>>
          ELSE [k \in 1..Len(filteredExpenses) |-> filteredExpenses[k].expense_id]
    /\ UNCHANGED <<importVars, error, loading, users, formData, attachLog, expenses,
                   categories, filterVars, deleteVars, pageVars, formVars>>

\* clearSelection: onClick of Clear Selection (in the toolbar shown while
\* something is selected, disabled while isDeleting).
clearSelection ==
    /\ page = "expenses"
    /\ ~loading
    /\ selectedExpenses # <<>>
    /\ ~isDeleting
    /\ selectedExpenses' = <<>>
    /\ UNCHANGED <<importVars, error, loading, users, formData, attachLog, expenses,
                   categories, filterVars, deleteVars, pageVars, formVars>>

\* The values typed into the search field and chosen in the filter selects.
SearchTerms == { <<>>, <<"t", "E">> }
CategoryFilters == { "", "c1" }
VendorFilters == { <<>>, <<"C", "i", "t", "y">> }
PaymentMethodFilters == { <<>>, <<"c", "a", "s", "h">> }

\* onChange of the search field and of the three filter selects.
setSearchTerm(term) ==
    /\ page = "expenses"
    /\ ~loading
    /\ searchTerm' = term
    /\ UNCHANGED <<importVars, error, loading, users, formData, attachLog, loadedVars,
                   categoryFilter, vendorFilter, paymentMethodFilter, deleteVars,
                   pageVars, formVars>>

setCategoryFilter(id) ==
    /\ page = "expenses"
    /\ ~loading
    /\ categoryFilter' = id
    /\ UNCHANGED <<importVars, error, loading, users, formData, attachLog, loadedVars,
                   searchTerm, vendorFilter, paymentMethodFilter, deleteVars,
                   pageVars, formVars>>

setVendorFilter(vendor) ==
    /\ page = "expenses"
    /\ ~loading
    /\ vendorFilter' = vendor
    /\ UNCHANGED <<importVars, error, loading, users, formData, attachLog, loadedVars,
                   searchTerm, categoryFilter, paymentMethodFilter, deleteVars,
                   pageVars, formVars>>

setPaymentMethodFilter(method) ==
    /\ page = "expenses"
    /\ ~loading
    /\ paymentMethodFilter' = method
    /\ UNCHANGED <<importVars, error, loading, users, formData, attachLog, loadedVars,
                   searchTerm, categoryFilter, vendorFilter, deleteVars,
                   pageVars, formVars>>

\* clearFilters: onClick of Clear (shown while a filter is set).
clearFilters ==
    /\ page = "expenses"
    /\ ~loading
    /\ categoryFilter # "" \/ vendorFilter # <<>> \/ paymentMethodFilter # <<>>
    /\ categoryFilter' = ""
    /\ vendorFilter' = <<>>
    /\ paymentMethodFilter' = <<>>
    /\ searchTerm' = <<>>
    /\ selectedExpenses' = <<>>
    /\ UNCHANGED <<importVars, error, loading, users, formData, attachLog, expenses,
                   categories, deleteVars, pageVars, formVars>>

\* fetchData() up to its await: setLoading(true), setError(null), and the
\* list requests sent.
StartRefresh ==
    /\ loading' = TRUE
    /\ error' = Null
    /\ refreshes' = refreshes + 1

\* The noun of each page's messages.
Noun(p) ==
    CASE p = "expenses" -> "expense"
      [] p = "categories" -> "category"
      [] p = "budgets" -> "budget"
      [] p = "wishlist" -> "wishlist item"

\* A variant of Proceeds that goes on whatever confirm() returned.
ProceedsAnyway(answer) == TRUE

\* if (!confirm(...)) return
Proceeds(answer) == answer

\* handleDelete(id) of the mounted page: onClick of the delete button of a
\* displayed row, up to its return or to its await of the delete request;
\* answer is what confirm() returns.
handleDelete(id, answer) ==
    /\ ~loading
    /\ id \in DisplayedIds(page)
    /\ id \notin pendingDeletes
    /\ Len(deleteLog) < MaxDeletes
    /\ lastConfirm' = [about |-> id, answer |-> answer]
    /\ IF Proceeds(answer)
       THEN /\ deleteLog' = Append(deleteLog, [api |-> page, id |-> id, by |-> "handleDelete"])
            /\ pendingDeletes' = pendingDeletes \cup {id}
       ELSE UNCHANGED <<deleteLog, pendingDeletes>>
    /\ UNCHANGED <<importVars, error, loading, users, formData, attachLog, loadedVars,
                   filterVars, isDeleting, bulk, refreshes, page, budgets,
                   wishlistItems, formVars>>

\* The delete request of handleDelete(id) is fulfilled: fetchData().
DeleteResolves(id) ==
    /\ id \in pendingDeletes
    /\ pendingDeletes' = pendingDeletes \ {id}
    /\ StartRefresh
    /\ UNCHANGED <<importVars, users, formData, attachLog, loadedVars, filterVars,
                   isDeleting, bulk, deleteLog, pageVars, formVars>>

\* The delete request of handleDelete(id) is rejected: the catch block.
DeleteRejects(id) ==
    /\ id \in pendingDeletes
    /\ pendingDeletes' = pendingDeletes \ {id}
    /\ error' = Message("Failed to delete " \o Noun(page))
    /\ UNCHANGED <<importVars, loading, users, formData, attachLog, loadedVars,
                   filterVars, isDeleting, bulk, deleteLog, refreshes, pageVars,
                   formVars>>

\* ------------------------------------------------------------------------
\* handleBulkDelete
\* ------------------------------------------------------------------------

\* What a rejected delete request throws.
DeleteErrors == { "Request failed with status code 500", "Network Error" }

\* A variant of NextInBulk that leaves the loop after a failed request.
NextInBulkUnlessFailed(b) == 
    IF b.errorCount > 0 THEN Len(b.ids) + 1 ELSE b.i + 1

\* The next pass of for (const expenseId of selectedExpenses).
NextInBulk(b) == b.i + 1

\* The loop at b.i: the delete request of the next id up to its await, or,
\* after the last id, fetchData up to its await.
BulkStep(b) ==
    IF b.i <= Len(b.ids)
    THEN /\ deleteLog' = Append(deleteLog, [api |-> "expenses", id |-> b.ids[b.i],
                                            by |-> "handleBulkDelete"])
         /\ bulk' = [b EXCEPT !.pc = "awaitDelete"]
         /\ UNCHANGED <<loading, error>>
    ELSE /\ loading' = TRUE
         /\ error' = Null
         /\ bulk' = [b EXCEPT !.pc = "awaitFetch"]
         /\ UNCHANGED deleteLog

\* handleBulkDelete: onClick of Delete Selected (shown while something is
\* selected, disabled while isDeleting), up to its return or its first
\* await; answer is what confirm() returns.
handleBulkDelete(answer) ==
    /\ page = "expenses"
    /\ ~loading
    /\ ~isDeleting
    /\ selectedExpenses # <<>>
    /\ lastConfirm' = [about |-> "selected", answer |-> answer]
    /\ IF Proceeds(answer)
       THEN /\ isDeleting' = TRUE
            /\ error' = Null
            /\ deleteLog' = <<[api |-> "expenses", id |-> selectedExpenses[1],
                               by |-> "handleBulkDelete"]>>
            /\ bulk' = [ids |-> selectedExpenses, i |-> 1, successCount |-> 0,
                        errorCount |-> 0, errors |-> <<>>, pc |-> "awaitDelete"]
       ELSE UNCHANGED <<isDeleting, error, deleteLog, bulk>>
    /\ UNCHANGED <<importVars, loading, users, formData, attachLog, loadedVars,
                   filterVars, pendingDeletes, refreshes, page, budgets, wishlistItems,
                   formVars>>

\* The delete request the loop awaits is fulfilled: successCount++ and the
\* delay.
BulkDeleteResolves ==
    /\ bulk.pc = "awaitDelete"
    /\ bulk' = [bulk EXCEPT !.successCount = @ + 1, !.pc = "delay"]
    /\ UNCHANGED <<importVars, error, loading, users, formData, attachLog, loadedVars,
                   filterVars, isDeleting, deleteLog, pendingDeletes, refreshes,
                   pageVars, formVars>>

\* The timer of the delay fires: the next pass of the loop.
BulkDelayElapses ==
    /\ bulk.pc = "delay"
    /\ BulkStep([bulk EXCEPT !.i = NextInBulk(bulk)])
    /\ UNCHANGED <<importVars, users, formData, attachLog, loadedVars, filterVars,
                   isDeleting, pendingDeletes, refreshes, pageVars, formVars>>

\* expense?.item || 'Unknown expense' for the expenses of the closure.
ItemOf(list, id) ==
    IF \E k \in 1..Len(list) : list[k].expense_id = id /\ list[k].item # <<>>
    THEN (CHOOSE e \in { list[k] : k \in 1..Len(list) } : e.expense_id = id).item
    ELSE <<"U", "n", "k", "n", "o", "w", "n", " ", "e", "x", "p", "e", "n", "s", "e">>

\* The delete request the loop awaits is rejected with message: the catch
\* block, then the next pass of the loop.  The activation reads the expenses
\* of its closure, which are those of the state while no refresh has been
\* settled since it started.
BulkDeleteRejects(message) ==
    /\ bulk.pc = "awaitDelete"
    /\ BulkStep([bulk EXCEPT
                    !.errorCount = @ + 1,
                    !.errors = Append(@, [item |-> ItemOf(expenses, bulk.ids[bulk.i]),
                                          message |-> message]),
                    !.i = NextInBulk([bulk EXCEPT !.errorCount = @ + 1])])
    /\ UNCHANGED <<importVars, users, formData, attachLog, loadedVars, filterVars,
                   isDeleting, pendingDeletes, refreshes, pageVars, formVars>>

\* The message of setError at the end of a bulk delete with errors.
BulkErrors(b) ==
    [kind |-> "Bulk delete completed with errors", successful |-> b.successCount,
     failed |-> b.errorCount, errors |-> b.errors]

\* The requests of the awaited fetchData are settled; then clearSelection,
\* the report, and the finally block.
BulkFetchSettles(ok, loaded) ==
    /\ bulk.pc = "awaitFetch"
    /\ expenses' = IF ok THEN loaded.expenses ELSE expenses
    /\ users' = IF ok THEN loaded.users ELSE users
    /\ categories' = IF ok THEN loaded.categories ELSE categories
    /\ selectedExpenses' = <<>>
    /\ loading' = FALSE
    /\ error' = IF bulk.errorCount > 0 THEN BulkErrors(bulk) ELSE Null
    /\ isDeleting' = FALSE
    /\ bulk' = [bulk EXCEPT !.pc = "done"]
    /\ UNCHANGED <<importVars, formData, attachLog, filterVars, deleteLog,
                   pendingDeletes, refreshes, pageVars, formVars>>

\* ------------------------------------------------------------------------
\* The pages with their lists
\* ------------------------------------------------------------------------

\* Page p after it has mounted and its first fetchData has loaded its lists:
\* everything else is as useState initialises it.
InitMounted(p, loaded) ==
    /\ page = p
    /\ expenses = loaded.expenses
    /\ users = loaded.users
    /\ categories = loaded.categories
    /\ budgets = loaded.budgets
    /\ wishlistItems = loaded.wishlistItems
    /\ formData = resetForm(p)
    /\ csvImportData = EmptyImportData
    /\ showCSVModal = FALSE
    /\ isImporting = FALSE
    /\ importProgress = [current |-> 0, total |-> 0]
    /\ error = Null
    /\ loading = FALSE
    /\ tz = "west"
    /\ reader = NoReader
    /\ pc = "idle"
    /\ run = NoRun
    /\ createLog = <<>>
    /\ inFlight = {}
    /\ outcomes = <<>>
    /\ fetchLog = <<>>
    /\ attachLog = <<>>
    /\ searchTerm = <<>>
    /\ categoryFilter = ""
    /\ vendorFilter = <<>>
    /\ paymentMethodFilter = <<>>
    /\ selectedExpenses = <<>>
    /\ isDeleting = FALSE
    /\ bulk = NoBulk
    /\ deleteLog = <<>>
    /\ pendingDeletes = {}
    /\ refreshes = 0
    /\ repeated = FALSE
    /\ showModal = FALSE
    /\ editing = NoEntity
    /\ submit = NoSubmit
    /\ saveLog = <<>>
    /\ typed = <<>>
    /\ lastConfirm = NoConfirm

ExpenseIds == {"e1", "e2"}
EntityIds == ExpenseIds \cup {"c1", "c2", "b1", "w1", "w2"}

\* The Expenses page with its search field, filters, checkboxes and the
\* delete buttons of its rows.
InitSelect == InitMounted("expenses", Loaded(<<ExpenseTea, ExpenseBus>>,
                                              <<CategoryX, CategoryZ>>, <<>>, <<>>))

NextSelect ==
    \/ \E id \in ExpenseIds : toggleExpenseSelection(id)
    \/ toggleSelectAll
    \/ clearSelection
    \/ \E term \in SearchTerms : setSearchTerm(term)
    \/ \E id \in CategoryFilters : setCategoryFilter(id)
    \/ \E vendor \in VendorFilters : setVendorFilter(vendor)
    \/ \E method \in PaymentMethodFilters : setPaymentMethodFilter(method)
    \/ clearFilters
    \/ \E id \in ExpenseIds, answer \in BOOLEAN : handleDelete(id, answer)
    \/ \E id \in ExpenseIds : DeleteResolves(id)
    \/ \E id \in ExpenseIds : DeleteRejects(id)
    \/ \E ok \in BOOLEAN, loaded \in PageLoads("expenses") : RefreshSettles(ok, loaded)

SelectSpec == InitSelect /\ [][NextSelect]_vars

\* The Expenses page with its checkboxes and the bulk delete.
NextBulk ==
    \/ \E id \in ExpenseIds : toggleExpenseSelection(id)
    \/ toggleSelectAll
    \/ \E answer \in BOOLEAN : handleBulkDelete(answer)
    \/ BulkDeleteResolves
    \/ BulkDelayElapses
    \/ \E message \in DeleteErrors : BulkDeleteRejects(message)
    \/ \E ok \in BOOLEAN, loaded \in PageLoads("expenses") : BulkFetchSettles(ok, loaded)

BulkSpec == InitSelect /\ [][NextBulk]_vars

\* Each of the four pages with the delete buttons of its rows.
InitDelete ==
    \E p \in Pages : \E loaded \in PageLoads(p) : InitMounted(p, loaded)

NextDelete ==
    \/ \E id \in EntityIds, answer \in BOOLEAN : handleDelete(id, answer)
    \/ \E id \in EntityIds : DeleteResolves(id)
    \/ \E id \in EntityIds : DeleteRejects(id)
    \/ \E ok \in BOOLEAN, loaded \in PageLoads(page) : RefreshSettles(ok, loaded)

DeleteSpec == InitDelete /\ [][NextDelete]_vars

\* ------------------------------------------------------------------------
\* The add and edit forms of the pages
\* ------------------------------------------------------------------------

\* validateCurrency(value): /^\d*\.?\d{0,2}$/.test(value)
validateCurrency(value) ==
    Bind(value, LAMBDA s :
        Bind(DigitPrefix(s), LAMBDA ip :
            LET rest == SubSeq(s, Len(ip) + 1, Len(s))
                fp == IF rest # <<>> /\ rest[1] = "." THEN Tail(rest) ELSE rest
            IN  Len(fp) <= 2 /\ \A j \in 1..Len(fp) : IsDigit(fp[j])))

\* The decimal digits of a natural number.
RECURSIVE DecimalDigits(_)
DecimalDigits(n) ==
    IF n < 10 THEN <<Digits[n + 1]>>
    ELSE DecimalDigits(n \div 10) \o <<Digits[(n % 10) + 1]>>

\* price.toString() of a number held in hundredths (none is negative): the
\* fraction is written without trailing zeros.
toString(v) ==
    DecimalDigits(v \div 100)
      \o (IF v % 100 = 0 THEN <<>>
          ELSE IF v % 10 = 0 THEN <<".", Digits[((v % 100) \div 10) + 1]>>
          ELSE <<".", Digits[((v % 100) \div 10) + 1], Digits[(v % 10) + 1]>>)

\* The price checks of handleSubmit on the Expenses and Wishlist pages: the
\* message of the first that fails, or "".
PriceError(price) ==
    IF ~validateCurrency(price)
    THEN "Price must be in valid currency format (e.g., 10.50)"
    ELSE IF isNaN(parseFloat(price)) \/ parseFloat(price).v <= 0
    THEN "Price must be a positive number"
    ELSE ""

\* The checks of handleSubmit on the Budgets page.
BudgetError(form) ==
    IF ~validateCurrency(form.current_spend)
    THEN "Current Spend must be in valid currency format (e.g., 10.50)"
    ELSE IF ~validateCurrency(form.future_spend)
    THEN "Future Spend must be in valid currency format (e.g., 10.50)"
    ELSE IF ~validateCurrency(form.max_spend)
    THEN "Max Spend must be in valid currency format (e.g., 10.50)"
    ELSE IF isNaN(parseFloat(form.current_spend)) \/ parseFloat(form.current_spend).v < 0
    THEN "Current spend must be a non-negative number"
    ELSE IF isNaN(parseFloat(form.future_spend)) \/ parseFloat(form.future_spend).v < 0
    THEN "Future spend must be a non-negative number"
    ELSE IF isNaN(parseFloat(form.max_spend)) \/ parseFloat(form.max_spend).v <= 0
    THEN "Max spend must be a positive number"
    ELSE ""

\* The message handleSubmit of page p returns with before any request, or
\* "" when it goes on to the request.
ValidationError(p, form) ==
    CASE p = "expenses" -> PriceError(form.price)
      [] p = "categories" -> ""
      [] p = "budgets" -> BudgetError(form)
      [] p = "wishlist" -> PriceError(form.price)

\* The required inputs of the form of page p are filled: the browser fires
\* onSubmit only then.
RequiredFilled(p, form) ==
    CASE p = "expenses" -> form.item # <<>> /\ form.user_id # NoUser /\ form.price # <<>>
      [] p = "categories" -> form.category_name # <<>>
      [] p = "budgets" ->
            /\ form.user_id # NoUser
            /\ form.category_id # ""
            /\ form.current_spend # <<>>
            /\ form.future_spend # <<>>
            /\ form.max_spend # <<>>
      [] p = "wishlist" -> form.item # <<>> /\ form.user_id # NoUser /\ form.price # <<>>

\* What the request of handleSubmit carries (of the fields the model
\* follows).
SaveData(p, form) ==
    CASE p = "expenses" -> [price |-> parseFloat(form.price)]
      [] p = "categories" -> [category_name |-> form.category_name]
      [] p = "budgets" ->
            [max_spend |-> parseFloat(form.max_spend),
             is_over_max |-> parseFloat(form.current_spend).v
                               + parseFloat(form.future_spend).v
                                 > parseFloat(form.max_spend).v]
      [] p = "wishlist" -> [price |-> parseFloat(form.price)]

\* The entity with this id in the list of the mounted page.
EntityOf(id) ==
    CASE page = "expenses" ->
            expenses[CHOOSE k \in 1..Len(expenses) : expenses[k].expense_id = id]
      [] page = "categories" ->
            categories[CHOOSE k \in 1..Len(categories) : categories[k].category_id = id]
      [] page = "budgets" ->
            budgets[CHOOSE k \in 1..Len(budgets) : budgets[k].budget_id = id]
      [] page = "wishlist" ->
            wishlistItems[CHOOSE k \in 1..Len(wishlistItems) :
                             wishlistItems[k].wish_id = id]

\* The form handleEdit fills from the entity.
EditForm(p, entity) ==
    CASE p = "expenses" ->
            [user_id |-> entity.user_id, item |-> entity.item,
             price |-> toString(entity.price),
             selected_categories |->
                 [k \in 1..Len(entity.categories) |-> entity.categories[k].category_id],
             new_categories |-> <<>>]
      [] p = "categories" -> [category_name |-> entity.category_name]
      [] p = "budgets" ->
            [user_id |-> entity.user_id, category_id |-> entity.category_id,
             current_spend |-> toString(entity.current_spend),
             future_spend |-> toString(entity.future_spend),
             max_spend |-> toString(entity.max_spend)]
      [] p = "wishlist" ->
            [user_id |-> entity.user_id, item |-> entity.item,
             price |-> toString(entity.price)]

\* onClick of the Add button of the mounted page.
OpenAddModal ==
    /\ ~loading
    /\ editing' = NoEntity
    /\ formData' = resetForm(page)
    /\ showModal' = TRUE
    /\ typed' = <<>>
    /\ UNCHANGED <<importVars, error, loading, users, attachLog, loadedVars, filterVars,
                   deleteVars, pageVars, submit, saveLog>>

\* handleEdit(entity): onClick of the edit button of a displayed row.
handleEdit(id) ==
    /\ ~loading
    /\ id \in DisplayedIds(page)
    /\ editing' = [id |-> id]
    /\ formData' = EditForm(page, EntityOf(id))
    /\ showModal' = TRUE
    /\ typed' = <<>>
    /\ UNCHANGED <<importVars, error, loading, users, attachLog, loadedVars, filterVars,
                   deleteVars, pageVars, submit, saveLog>>

\* onClick of the Cancel button of the form.
CancelModal ==
    /\ ~loading
    /\ showModal
    /\ showModal' = FALSE
    /\ editing' = NoEntity
    /\ formData' = resetForm(page)
    /\ typed' = <<>>
    /\ UNCHANGED <<importVars, error, loading, users, attachLog, loadedVars, filterVars,
                   deleteVars, pageVars, submit, saveLog>>

\* The inputs of the forms that set their field to whatever is entered, and
\* what is entered.
PlainFields == {"item", "user_id", "category_name", "category_id"}

FieldValues(field) ==
    CASE field = "item" -> { <<"T">> }
      [] field = "user_id" -> users
      [] field = "category_name" -> { <<"y">> }
      [] field = "category_id" -> { categories[k].category_id : k \in 1..Len(categories) }

\* onChange of an input: setFormData({ ...formData, [field]: value })
setFormData(field, value) ==
    /\ ~loading
    /\ showModal
    /\ field \in DOMAIN formData
    /\ formData' = [formData EXCEPT ![field] = value]
    /\ UNCHANGED <<importVars, error, loading, users, attachLog, loadedVars, filterVars,
                   deleteVars, pageVars, formVars>>

\* The form after handlePriceChange(value) or handleCurrencyChange(field,
\* value): a value that is not a currency text is not stored.
CurrencyChange(field, value) ==
    IF validateCurrency(value) \/ value = <<>>
    THEN [formData EXCEPT ![field] = value]
    ELSE formData

PriceTexts == { <<"5">>, <<"0">>, <<"-", "5">> }

\* handlePriceChange(value): onChange of the price input with a whole value
\* (pasted, or selected and replaced).
handlePriceChange(value) ==
    /\ ~loading
    /\ showModal
    /\ page \in {"expenses", "wishlist"}
    /\ formData' = CurrencyChange("price", value)
    /\ UNCHANGED <<importVars, error, loading, users, attachLog, loadedVars, filterVars,
                   deleteVars, pageVars, formVars>>

PriceKeys == {"-", "1", "0", "."}

\* A key is typed at the end of the price input: handlePriceChange with the
\* value of the input followed by the key.  (Keys are followed until the
\* page has sent its last request.)
TypePrice(key) ==
    /\ ~loading
    /\ showModal
    /\ page \in {"expenses", "wishlist"}
    /\ Len(typed) < MaxKeys
    /\ Len(saveLog) < MaxSaves
    /\ typed' = Append(typed, key)
    /\ formData' = CurrencyChange("price", formData.price \o <<key>>)
    /\ UNCHANGED <<importVars, error, loading, users, attachLog, loadedVars, filterVars,
                   deleteVars, pageVars, showModal, editing, submit, saveLog>>

SpendFields == {"current_spend", "future_spend", "max_spend"}
SpendTexts == { <<"5">>, <<"0">>, <<"-", "5">> }

\* handleCurrencyChange(field, value) of the Budgets page.
handleCurrencyChange(field, value) ==
    /\ ~loading
    /\ showModal
    /\ page = "budgets"
    /\ formData' = CurrencyChange(field, value)
    /\ UNCHANGED <<importVars, error, loading, users, attachLog, loadedVars, filterVars,
                   deleteVars, pageVars, formVars>>

\* toggleCategory(categoryId): onChange of a category checkbox of the
\* Expenses form.
toggleCategory(id) ==
    /\ ~loading
    /\ showModal
    /\ page = "expenses"
    /\ \E k \in 1..Len(categories) : categories[k].category_id = id
    /\ formData' =
          [formData EXCEPT !.selected_categories =
              IF has(@, id) THEN SelectSeq(@, LAMBDA c : c # id) ELSE Append(@, id)]
    /\ UNCHANGED <<importVars, error, loading, users, attachLog, loadedVars, filterVars,
                   deleteVars, pageVars, formVars>>

\* handleSubmit of the mounted page, up to a return of its checks or to its
\* await of the create or update request.  One activation runs at a time.
handleSubmit ==
    /\ ~loading
    /\ showModal
    /\ submit.pc = "idle"
    /\ Len(saveLog) < MaxSaves
    /\ RequiredFilled(page, formData)
    /\ IF ValidationError(page, formData) # ""
       THEN /\ error' = Message(ValidationError(page, formData))
            /\ UNCHANGED <<saveLog, submit>>
       ELSE /\ saveLog' = Append(saveLog,
                              [api |-> page,
                               kind |-> IF editing # NoEntity THEN "update" ELSE "create",
                               id |-> editing.id,
                               data |-> SaveData(page, formData)])
            /\ submit' = [pc |-> "awaitSave",
                          attach |-> IF page = "expenses" /\ editing = NoEntity
                                     THEN formData.selected_categories ELSE <<>>,
                          k |-> 0, failed |-> 0, result |-> "none"]
            /\ error' = error
    /\ UNCHANGED <<importVars, loading, users, formData, attachLog, loadedVars,
                   filterVars, deleteVars, pageVars, showModal, editing, typed>>

\* The end of the try block: setShowModal(false), the editing target set to
\* null, resetForm(), and fetchData() up to its await.
SubmitDone(s) ==
    /\ showModal' = FALSE
    /\ editing' = NoEntity
    /\ formData' = resetForm(page)
    /\ StartRefresh
    /\ submit' = [s EXCEPT !.pc = "idle", !.result = "saved"]
    /\ UNCHANGED attachLog

\* The loop over the selected categories at s.k: the attach request of the
\* next category up to its await, or, after the last, the end of the try
\* block.
AttachStep(s) ==
    IF s.k <= Len(s.attach)
    THEN /\ attachLog' = Append(attachLog, [by |-> "form", save |-> Len(saveLog),
                                            category |-> s.attach[s.k]])
         /\ submit' = [s EXCEPT !.pc = "awaitAttach"]
         /\ UNCHANGED <<showModal, editing, formData, loading, error, refreshes>>
    ELSE SubmitDone(s)

\* The create or update request is fulfilled.
SaveResolves ==
    /\ submit.pc = "awaitSave"
    /\ AttachStep([submit EXCEPT !.k = 1])
    /\ UNCHANGED <<importVars, users, loadedVars, filterVars, isDeleting, bulk, deleteLog,
                   pendingDeletes, pageVars, saveLog, typed>>

\* A variant of SaveRejects whose catch block also closes the modal and
\* resets the form.
SaveRejectsAndCloses ==
    /\ submit.pc = "awaitSave"
    /\ error' = Message("Failed to save " \o Noun(page))
    /\ showModal' = FALSE
    /\ editing' = NoEntity
    /\ formData' = resetForm(page)
    /\ submit' = [submit EXCEPT !.pc = "idle", !.result = "failed"]
    /\ UNCHANGED <<importVars, loading, users, attachLog, loadedVars, filterVars,
                   deleteVars, pageVars, saveLog, typed>>

\* The create or update request is rejected: the catch block.
SaveRejects ==
    /\ submit.pc = "awaitSave"
    /\ error' = Message("Failed to save " \o Noun(page))
    /\ submit' = [submit EXCEPT !.pc = "idle", !.result = "failed"]
    /\ UNCHANGED <<importVars, loading, users, formData, attachLog, loadedVars,
                   filterVars, deleteVars, pageVars, showModal, editing, saveLog, typed>>

\* A variant of NextAttach that leaves the loop after a failed attachment.
NextAttachUnlessFailed(s, ok) == IF ok THEN s.k + 1 ELSE Len(s.attach) + 1

\* The next pass of for (const categoryId of formData.selected_categories),
\* after the attachment was made (ok) or was caught failing.
NextAttach(s, ok) == s.k + 1

\* The attach request in flight is fulfilled, or is rejected and caught by
\* the catch block inside the loop.
AttachSettles(ok) ==
    /\ submit.pc = "awaitAttach"
    /\ AttachStep([submit EXCEPT !.k = NextAttach(submit, ok),
                                 !.failed = IF ok THEN @ ELSE @ + 1])
    /\ UNCHANGED <<importVars, users, loadedVars, filterVars, isDeleting, bulk, deleteLog,
                   pendingDeletes, pageVars, saveLog, typed>>

\* Each of the four pages with its form.
InitForm ==
    \E p \in Pages : \E loaded \in PageLoads(p) : InitMounted(p, loaded)

NextForm ==
    \/ OpenAddModal
    \/ \E id \in EntityIds : handleEdit(id)
    \/ CancelModal
    \/ \E field \in PlainFields : \E value \in FieldValues(field) : setFormData(field, value)
    \/ \E value \in PriceTexts : handlePriceChange(value)
    \/ \E field \in SpendFields, value \in SpendTexts : handleCurrencyChange(field, value)
    \/ \E id \in {"c1", "c2"} : toggleCategory(id)
    \/ handleSubmit
    \/ SaveResolves
    \/ SaveRejects
    \/ \E ok \in BOOLEAN : AttachSettles(ok)
    \/ \E ok \in BOOLEAN, loaded \in PageLoads(page) : RefreshSettles(ok, loaded)

FormSpec == InitForm /\ [][NextForm]_vars

\* The Wishlist page with its Add form and the keys typed into its price
\* input.
InitWishlist == InitMounted("wishlist", Loaded(<<>>, <<>>, <<>>, <<WishPhone, WishBike>>))

NextWishlist ==
    \/ OpenAddModal
    \/ \E field \in {"item", "user_id"} : \E value \in FieldValues(field) :
          setFormData(field, value)
    \/ \E key \in PriceKeys : TypePrice(key)
    \/ handleSubmit
    \/ SaveResolves
    \/ SaveRejects
    \/ \E ok \in BOOLEAN, loaded \in PageLoads("wishlist") : RefreshSettles(ok, loaded)

WishlistSpec == InitWishlist /\ [][NextWishlist]_vars

\* ------------------------------------------------------------------------
\* Properties of the import run (Spec)
\* ------------------------------------------------------------------------

\* The rows the requests of createLog were sent for, in the order sent.
RowsSent == [k \in 1..Len(createLog) |-> createLog[k].row]

\* The rows 0 .. n - 1 in order.
RowsInOrder(n) == [k \in 1..n |-> k - 1]

Failed(o) == ~o.ok

\* The positions (1-based) of the rows whose request failed, in the order
\* the requests were settled.
FailedPositions ==
    LET failed == SelectSeq(outcomes, Failed)
    IN  [k \in 1..Len(failed) |-> failed[k].row + 1]

\* C1: a failed create-expense request never aborts the run: no row is ever
\* submitted twice, and when the run has ended every one of its N rows has
\* been submitted, whatever requests failed.
C1_EveryRowSubmittedOnce ==
    /\ \A j, k \in 1..Len(createLog) : j # k => createLog[j].row # createLog[k].row
    /\ run.ended = "completed" =>
          { createLog[k].row : k \in 1..Len(createLog) } = 0..(Len(run.rows) - 1)

\* A run of two or more rows has ended whose first request failed.
C1_Witness ==
    /\ run.ended = "completed"
    /\ Len(run.rows) >= 2
    /\ ~outcomes[1].ok
    /\ Len(createLog) = Len(run.rows)

\* C2: when a run over N rows has ended, succeeded + failed = N and the
\* error list holds exactly one entry for each failed row, in row order,
\* each naming the position of its row; the counts and the list are what
\* the page reports.
C2_CountsAndErrorsMatchRows ==
    run.ended = "completed" =>
        /\ run.successCount + run.errorCount = Len(run.rows)
        /\ run.errorCount = Len(FailedPositions)
        /\ [k \in 1..Len(run.errors) |-> run.errors[k].row] = FailedPositions
        /\ run.errorCount > 0 =>
              /\ error.successful = run.successCount
              /\ error.failed = run.errorCount
              /\ error.errors = run.errors

\* A run has ended in which only the second row failed.
C2_Witness ==
    /\ run.ended = "completed"
    /\ Len(run.rows) >= 2
    /\ run.successCount = Len(run.rows) - 1
    /\ run.errorCount = 1
    /\ run.errors[1].row = 2

\* C3: the rows are submitted one at a time in input order: a request is
\* sent only when every earlier request of the run has been settled, so at
\* most one is in flight.
C3_OneRequestInFlight ==
    /\ Cardinality(inFlight) <= 1
    /\ Len(createLog) <= Len(outcomes) + 1
    /\ RowsSent = RowsInOrder(Len(createLog))

\* The request of the second row is in flight after the first was settled.
C3_Witness ==
    /\ Len(createLog) = 2
    /\ inFlight = {1}
    /\ Len(outcomes) = 1

\* C4: once every row of a run has been attempted fetchData has been
\* called, exactly once, whatever the rows' results, and it is called only
\* after the request of the last row was settled.
C4_RefreshAfterLastRow ==
    /\ (run.ended \in {"running", "completed"} /\ Len(outcomes) = Len(run.rows)) =>
          Len(fetchLog) = 1
    /\ \A k \in 1..Len(fetchLog) :
          fetchLog[k].unsettled = {} /\ Len(outcomes) = Len(run.rows)

\* A run has ended in which every row failed, and fetchData was called.
C4_Witness ==
    /\ run.ended = "completed"
    /\ Len(run.rows) >= 2
    /\ run.errorCount = Len(run.rows)
    /\ Len(fetchLog) = 1

\* C5: the step that ends a run without errors closes the modal and resets
\* the text, the parsed rows and the parse errors; the step that ends a run
\* with an error leaves the modal open and the text, month, year and parsed
\* rows as they are.
C5_ClearOnlyOnFullSuccess ==
    [][(pc = "awaitFetch" /\ pc' = "idle") =>
          IF run.errorCount = 0
          THEN /\ showCSVModal' = FALSE
               /\ csvImportData'.csvContent = <<>>
               /\ csvImportData'.parsedData = <<>>
               /\ csvImportData'.errors = <<>>
          ELSE /\ showCSVModal /\ showCSVModal'
               /\ csvImportData' = csvImportData]_vars

\* A run with a failed and a succeeded row has ended and the modal still
\* shows the rows of the run.
C5_Witness ==
    /\ run.ended = "completed"
    /\ run.errorCount > 0
    /\ run.successCount > 0
    /\ showCSVModal
    /\ csvImportData.parsedData = run.rows

\* The category names of the row a request was sent for.
NamesOfRow(k) == NewCategories(run.rows[createLog[k].row + 1].categories)

\* The attach-category requests made for row i of the run.
AttachedFor(i) == SelectSeq(attachLog, LAMBDA a : a.by = "import" /\ a.row = i)

C7_NoRequestWithoutPositivePrice ==
    \A k \in 1..Len(createLog) :
        LET price == createLog[k].data.price
        IN  ~price.nan /\ price.v > 0

\* ------------------------------------------------------------------------
\* Properties of parseCSV (ParseSpec), stated on what the page has stored
\* ------------------------------------------------------------------------

\* The lines parseCSV sees for the stored text, and its header cells.
StoredLines == split(trim(csvImportData.csvContent), NL)

StoredHeader == HeaderCells(StoredLines[1])

\* A cell of the header is, in lower case, a key of the synonym table.
MatchesTable(header) ==
    \E k \in 1..Len(header) : \E e \in headerMappings : e[1] = toLowerCase(header[k])

\* The entries of an error list that are labelled Row n.
EntriesOf(errors, n) == SelectSeq(errors, LAMBDA e : e.row = n)

\* The entries labelled Row n that carry the message msg.
EntriesWith(errors, n, msg) == SelectSeq(errors, LAMBDA e : e.row = n /\ e.msg = msg)

\* The labels of an error list.
Labels(errors) == { errors[k].row : k \in 1..Len(errors) }

\* A data line has an empty value in a required column the header has.
MissingIn(line, header, headerMap, field) ==
    /\ Present(headerMap, field)
    /\ trim(FieldOf(PaddedRow(line, Len(header)), headerMap, field)) = <<>>

MissingRequired(line, header, headerMap) ==
    MissingIn(line, header, headerMap, "item") \/ MissingIn(line, header, headerMap, "vendor")

\* The number of the line that is line i of the trimmed text, counted in
\* the text as it was entered.
LineNumberInInput(i, content) ==
    i + Len(split(content, NL)) - Len(split(TrimStart(content), NL))

\* C8 as stated: for a text with a data line, parseCSV goes on to the data
\* rows whenever a header cell matches the synonym table without regard to
\* case, and when no header cell matches it returns exactly one error, the
\* one that lists the header cells, and no row.
C8_HeaderDecidesParse ==
    LET lines == StoredLines
        header == StoredHeader
        errors == csvImportData.errors
    IN  Len(lines) >= 2 =>
            IF MatchesTable(header)
            THEN \A k \in 1..Len(errors) : errors[k].row # 0
            ELSE /\ csvImportData.parsedData = <<>>
                 /\ Len(errors) = 1
                 /\ errors[1].msg = "No recognized columns found"
                 /\ errors[1].cells = header

\* C9: under a header that matches the synonym table every data line gives
\* exactly one result: the valid rows and the rejected lines together are
\* as many as the data lines, also when a line is shorter than the header.
C9_OneResultPerDataLine ==
    LET lines == StoredLines
        rejected == Labels(csvImportData.errors)
    IN  (Len(lines) >= 2 /\ MatchesTable(StoredHeader)) =>
            /\ rejected \subseteq 2..Len(lines)
            /\ Len(csvImportData.parsedData) + Cardinality(rejected) = Len(lines) - 1

\* Two data lines, one of them shorter than the header, gave one valid row
\* and one rejected line.
C9_Witness ==
    LET lines == StoredLines
        header == StoredHeader
    IN  /\ Len(lines) = 3
        /\ MatchesTable(header)
        /\ Len(csvImportData.parsedData) = 1
        /\ Cardinality(Labels(csvImportData.errors)) = 1
        /\ \E i \in 2..3 : Len(split(lines[i], TAB)) < Len(header)

AcceptedLines(lines, errors) ==
    SelectSeq([i \in 1..(Len(lines) - 1) |-> i + 1], LAMBDA n : EntriesOf(errors, n) = <<>>)

\* The text of a column in a data line, as parseCSV extracts it.
CellOf(line, header, headerMap, field) ==
    FieldOf(PaddedRow(line, Len(header)), headerMap, field)

\* C11: parseCSV does not stop at a rejected row: the rows emitted are the
\* rows of exactly the data lines without an error, in the order of the
\* lines, whatever lines before them were rejected, and a line after a
\* rejected line is validated like any other.
C11_RejectedRowsDoNotStopParsing ==
    LET lines == StoredLines
        header == StoredHeader
        headerMap == HeaderMap(header)
        errors == csvImportData.errors
        data == csvImportData.parsedData
        accepted == AcceptedLines(lines, errors)
    IN  (Len(lines) >= 2 /\ DOMAIN headerMap # {}) =>
            /\ Len(data) = Len(accepted)
            /\ \A k \in 1..Len(data) :
                  /\ data[k].item =
                        OrElse(trim(CellOf(lines[accepted[k]], header, headerMap, "item")),
                               UnknownItem)
                  /\ Present(headerMap, "price") =>
                        data[k].price =
                            parseFloat(CellOf(lines[accepted[k]], header, headerMap, "price"))
            /\ \A i \in 2..Len(lines) :
                  MissingRequired(lines[i], header, headerMap) => EntriesOf(errors, i) # <<>>

\* The first of two data lines was rejected and the second gave the one
\* row emitted.
C11_Witness ==
    LET lines == StoredLines
        errors == csvImportData.errors
    IN  /\ Len(lines) = 3
        /\ EntriesOf(errors, 2) # <<>>
        /\ EntriesOf(errors, 3) = <<>>
        /\ Len(csvImportData.parsedData) = 1

\* The whole of a text, white space at its ends aside, is a decimal number:
\* an optional sign, digits and an optional fraction.
IsNumberText(text) ==
    LET t == trim(text)
        u == IF t # <<>> /\ t[1] \in {"+", "-"} THEN Tail(t) ELSE t
        ip == DigitPrefix(u)
        fp == FractionDigits(u, ip)
        point == Len(u) > Len(ip) /\ u[Len(ip) + 1] = "."
    IN  /\ ip # <<>> \/ fp # <<>>
        /\ Len(u) = Len(ip) + (IF point THEN 1 + Len(fp) ELSE 0)

IsNegativeText(text) == LET t == trim(text) IN t # <<>> /\ t[1] = "-"

\* C12 as stated: under a header with a price column, every data line
\* whose price text is empty, is not as a whole a finite number, or is
\* negative is rejected, and no row emitted has a negative or an infinite
\* price or a price read from a part of its text.
C12_PriceFullyValidated ==
    LET lines == StoredLines
        header == StoredHeader
        headerMap == HeaderMap(header)
        errors == csvImportData.errors
        data == csvImportData.parsedData
        accepted == AcceptedLines(lines, errors)
    IN  (Len(lines) >= 2 /\ Present(headerMap, "price")) =>
            /\ \A i \in 2..Len(lines) :
                  LET cell == CellOf(lines[i], header, headerMap, "price")
                  IN  (~IsNumberText(cell) \/ IsNegativeText(cell)) =>
                          EntriesOf(errors, i) # <<>>
            /\ \A k \in 1..Len(data) : ~data[k].price.inf /\ data[k].price.v >= 0

\* C13: under a header with a date column, a data line has no entry about
\* its day exactly when its day text parses as an integer from 1 to 31: an
\* empty day text has the entry Date cannot be empty, a day text that is
\* not a number or gives a day below 1 or above 31 has the entry Invalid
\* day with that text, and a line with such an entry gives no row.
C13_DayFrom1To31 ==
    LET lines == StoredLines
        header == StoredHeader
        headerMap == HeaderMap(header)
        errors == csvImportData.errors
    IN  (Len(lines) >= 2 /\ Present(headerMap, "date")) =>
            /\ \A i \in 2..Len(lines) :
                  LET cell == CellOf(lines[i], header, headerMap, "date")
                      day == parseInt(cell)
                      empty == EntriesWith(errors, i, "Date cannot be empty")
                      invalid == EntriesWith(errors, i, "Invalid day")
                  IN  IF trim(cell) = <<>>
                      THEN Len(empty) = 1 /\ invalid = <<>>
                      ELSE IF day.nan \/ day.n < 1 \/ day.n > 31
                      THEN empty = <<>> /\ Len(invalid) = 1 /\ invalid[1].text = cell
                      ELSE empty = <<>> /\ invalid = <<>>
            /\ Len(csvImportData.parsedData) = Len(AcceptedLines(lines, errors))

\* Of two data lines the one with the day 32 has the entry Invalid day as
\* its only entry and the other gave the one row emitted.
C13_Witness ==
    LET lines == StoredLines
        header == StoredHeader
        headerMap == HeaderMap(header)
        errors == csvImportData.errors
    IN  /\ Len(lines) = 3
        /\ Present(headerMap, "date")
        /\ Len(csvImportData.parsedData) = 1
        /\ \E i \in 2..3 :
              /\ Len(EntriesOf(errors, i)) = 1
              /\ EntriesOf(errors, i)[1].msg = "Invalid day"
              /\ parseInt(CellOf(lines[i], header, headerMap, "date")) = IntNum(32)

\* The stored rows are the rows parseCSV gives for the stored text, month
\* and year.
RowsOfStoredDate ==
    LET parsed == parseCSV(csvImportData.csvContent, csvImportData.month,
                           csvImportData.year, tz)
    IN  ~parsed.threw /\ parsed.data = csvImportData.parsedData

\* The day of the k-th accepted line of the stored text.
DayOfRow(k) ==
    LET lines == StoredLines
        header == StoredHeader
    IN  parseInt(CellOf(lines[AcceptedLines(lines, csvImportData.errors)[k]],
                        header, HeaderMap(header), "date")).n

\* C14 as stated: under a header with a date column, a row whose day exists
\* in the chosen month (counted from 0) of the chosen year is dated that
\* day of that month and year, whatever the time zone of the host.
C14_DateIsTheChosenDay ==
    LET month == parseInt(csvImportData.month).n
        year == parseInt(csvImportData.year).n
        data == csvImportData.parsedData
    IN  (Len(StoredLines) >= 2 /\ Present(HeaderMap(StoredHeader), "date")
            /\ RowsOfStoredDate) =>
            \A k \in 1..Len(data) :
                DayOfRow(k) <= DaysInMonth(year, month) =>
                    data[k].date_purchased = IsoDate(year, month + 1, DayOfRow(k))

\* C15 as stated: under a header with a date column, a row whose day, from
\* 1 to 31, does not exist in the chosen month of the chosen year is dated
\* the day of the following month the surplus of days leads to (no such row
\* being rejected), the same on every host.
C15_SurplusDayRollsOver ==
    LET month == parseInt(csvImportData.month).n
        year == parseInt(csvImportData.year).n
        data == csvImportData.parsedData
    IN  (Len(StoredLines) >= 2 /\ Present(HeaderMap(StoredHeader), "date")
            /\ RowsOfStoredDate) =>
            \A k \in 1..Len(data) :
                DayOfRow(k) > DaysInMonth(year, month) =>
                    data[k].date_purchased =
                        IsoDate(IF month = 11 THEN year + 1 ELSE year,
                                IF month = 11 THEN 1 ELSE month + 2,
                                DayOfRow(k) - DaysInMonth(year, month))

\* The fields whose check pushes the message msg.
FieldChecked(msg) ==
    IF msg = "Item cannot be empty" THEN "item"
    ELSE IF msg = "Vendor cannot be empty" THEN "vendor"
    ELSE IF msg \in {"Price cannot be empty", "Invalid price"} THEN "price"
    ELSE "date"

\* C16: a column the header does not have is never validated and has its
\* default in every row emitted: Unknown Item, Unknown Vendor, the price 0,
\* the current date, and an empty payment method, notes and categories; a
\* column the header has gives the row its own validated value, never the
\* default in place of a value that failed its check.
C16_DefaultsOnlyForAbsentColumns ==
    LET lines == StoredLines
        header == StoredHeader
        headerMap == HeaderMap(header)
        errors == csvImportData.errors
        data == csvImportData.parsedData
        accepted == AcceptedLines(lines, errors)
        Cell(k, field) == CellOf(lines[accepted[k]], header, headerMap, field)
    IN  (Len(lines) >= 2 /\ DOMAIN headerMap # {}) =>
            /\ Len(data) = Len(accepted)
            /\ \A e \in 1..Len(errors) : Present(headerMap, FieldChecked(errors[e].msg))
            /\ \A k \in 1..Len(data) :
                  /\ IF Present(headerMap, "item")
                     THEN data[k].item = trim(Cell(k, "item")) /\ data[k].item # <<>>
                     ELSE data[k].item = UnknownItem
                  /\ IF Present(headerMap, "vendor")
                     THEN data[k].vendor = trim(Cell(k, "vendor")) /\ data[k].vendor # <<>>
                     ELSE data[k].vendor = UnknownVendor
                  /\ IF Present(headerMap, "price")
                     THEN ~parseFloat(Cell(k, "price")).nan
                             /\ data[k].price = parseFloat(Cell(k, "price"))
                     ELSE data[k].price = Num(0)
                  /\ ~Present(headerMap, "date") => data[k].date_purchased = Today
                  /\ data[k].payment_method = trim(Cell(k, "method"))
                  /\ data[k].notes = trim(Cell(k, "notes"))
                  /\ data[k].categories = trim(Cell(k, "categories"))

\* Under a header with a price column and no other column parseCSV knows, a
\* row was emitted with its own price and the defaults of all other
\* columns.
C16_Witness ==
    LET headerMap == HeaderMap(StoredHeader)
        data == csvImportData.parsedData
    IN  /\ Len(StoredLines) >= 2
        /\ DOMAIN headerMap = {"price"}
        /\ Len(data) >= 1
        /\ data[1].price.v > 0
        /\ data[1].item = UnknownItem
        /\ data[1].vendor = UnknownVendor
        /\ data[1].date_purchased = Today
        /\ data[1].categories = <<>>

\* ------------------------------------------------------------------------
\* Further properties of the import run (Spec)
\* ------------------------------------------------------------------------

\* C17: the category names sent for a row are the pieces of the row's
\* category text between its commas, each trimmed, without the pieces that
\* are empty after trimming and in the order of the text; an empty text
\* gives no name.
C17_CategoryNamesSplitAndTrimmed ==
    \A k \in 1..Len(createLog) :
        LET text == run.rows[createLog[k].row + 1].categories
            pieces == split(text, ",")
            sent == createLog[k].data.new_categories
        IN  /\ sent = SelectSeq([j \in 1..Len(pieces) |-> trim(pieces[j])],
                                LAMBDA name : name # <<>>)
            /\ \A j \in 1..Len(sent) : sent[j] # <<>> /\ trim(sent[j]) = sent[j]
            /\ trim(text) = <<>> => sent = <<>>

\* A request was sent for a row whose category text has two pieces, one of
\* them empty, with the one name left.
C17_Witness ==
    \E k \in 1..Len(createLog) :
        /\ Len(split(run.rows[createLog[k].row + 1].categories, ",")) = 2
        /\ Len(createLog[k].data.new_categories) = 1

\* The requests of the run that were rejected, in the order settled.
FailedOutcomes == SelectSeq(outcomes, Failed)

ServerFault == "Server error (500) - expense may have been created but with issues"
ClientRejection == "HTTP status: detail"
NetworkFailure == "Network error - check backend connection"

C19_DelayBetweenRequests ==
    [][/\ (Len(createLog') = Len(createLog) + 1 /\ Len(createLog) >= 1) => pc = "delay"
       /\ pc' = "delay" => Len(createLog') < Len(run'.rows)]_vars

\* C20 as stated: while a run is in progress no step changes the pending
\* import input (the text, month, year, parsed rows and parse errors the
\* end of the run clears or keeps), and a run starts only when no run is in
\* progress.
C20_RunStateUntouched ==
    [][/\ (isImporting /\ isImporting') => csvImportData' = csvImportData
       /\ (run' # run /\ run'.ended = "running" /\ run'.i = 0 /\ Len(outcomes') = 0) =>
             ~isImporting]_vars

\* The names of the categories loaded.
LoadedNames == { categories[c].category_name : c \in 1..Len(categories) }

\* C21: whatever categories are loaded, the new_categories of every request
\* of the run are all the names of its row: a name that is the name of a
\* loaded category is sent as a new category like any other.
C21_LoadedNamesSentAsNew ==
    \A k \in 1..Len(createLog) :
        LET names == NewCategories(run.rows[createLog[k].row + 1].categories)
            sent == createLog[k].data.new_categories
        IN  /\ Len(sent) = Len(names)
            /\ \A j \in 1..Len(names) : sent[j] = names[j]
            /\ \A n \in LoadedNames :
                  (\E j \in 1..Len(names) : names[j] = n) => \E j \in 1..Len(sent) : sent[j] = n

\* A request of a run in progress carries the name of a loaded category and
\* a name that no loaded category has.
C21_Witness ==
    /\ pc = "awaitCreate"
    /\ \E k \in 1..Len(createLog) :
          LET sent == createLog[k].data.new_categories
          IN  /\ \E j \in 1..Len(sent) : sent[j] \in LoadedNames
              /\ \E j \in 1..Len(sent) : sent[j] \notin LoadedNames

\* C22: a run that repeats the run before it (same user, same rows, every
\* request of the first run fulfilled) sends the request of every row
\* again, in order and with the same body, and when every request is
\* fulfilled again it ends with N requests sent, N successes, no failure
\* and no error message.
C22_RepeatedRunSubmitsAgain ==
    (repeated /\ run.ended \in {"running", "completed"}) =>
        /\ \A k \in 1..Len(createLog) :
              /\ createLog[k].row = k - 1
              /\ createLog[k].data = ExpenseData(run.selectedUser, run.rows[k])
        /\ ( /\ run.ended = "completed"
             /\ Len(outcomes) = Len(createLog)
             /\ \A k \in 1..Len(outcomes) : outcomes[k].ok )
           => /\ Len(createLog) = Len(run.rows)
              /\ run.successCount = Len(run.rows)
              /\ run.errorCount = 0
              /\ run.errors = <<>>
              /\ error = Null

\* The second of two identical runs of two rows has ended, every request
\* fulfilled.
C22_Witness ==
    /\ repeated
    /\ run.ended = "completed"
    /\ Len(run.rows) = 2
    /\ Len(createLog) = 2
    /\ run.successCount = 2
    /\ \A k \in 1..Len(outcomes) : outcomes[k].ok

\* ------------------------------------------------------------------------
\* Termination of the import run (LiveSpec)
\* ------------------------------------------------------------------------

\* C28: a run in progress ends in the end, with isImporting false and the
\* progress at 0 of 0, whether the refresh at its end was fulfilled or
\* rejected; and a run that returns because the selected user is not among
\* the users loaded has sent no request, started no refresh, and has left
\* isImporting false and the progress at 0 of 0.
C28_RunEnds ==
    /\ [](run.ended = "noUser" =>
            /\ ~isImporting
            /\ importProgress = [current |-> 0, total |-> 0]
            /\ createLog = <<>>
            /\ fetchLog = <<>>
            /\ pc = "idle")
    /\ isImporting ~> ( /\ ~isImporting
                        /\ importProgress = [current |-> 0, total |-> 0]
                        /\ run.ended = "completed"
                        /\ pc = "idle" )

\* A run of two rows, one of them failed, has ended.
C28_Witness ==
    /\ run.ended = "completed"
    /\ ~isImporting
    /\ importProgress = [current |-> 0, total |-> 0]
    /\ Len(run.rows) = 2
    /\ run.errorCount = 1

\* ------------------------------------------------------------------------
\* The stored parse while a file is read (ParseSpec)
\* ------------------------------------------------------------------------

\* C29 as stated: once a text is stored, the stored rows and errors are
\* what parseCSV returns for the stored text, month and year.
C29_StoredParseIsCurrent ==
    csvImportData.csvContent # <<>> =>
        LET r == parseCSV(csvImportData.csvContent, csvImportData.month,
                          csvImportData.year, tz)
        IN  /\ ~r.threw
            /\ csvImportData.parsedData = r.data
            /\ csvImportData.errors = r.errors

\* ------------------------------------------------------------------------
\* Properties of the selection (SelectSpec)
\* ------------------------------------------------------------------------

\* C27 as stated: every selected id is the id of a displayed expense.
C27_SelectionIsDisplayed ==
    \A k \in 1..Len(selectedExpenses) : selectedExpenses[k] \in DisplayedIds("expenses")

\* ------------------------------------------------------------------------
\* Properties of the bulk delete (BulkSpec)
\* ------------------------------------------------------------------------

\* C30: a confirmed bulk delete of the k selected ids sends its delete
\* requests one at a time, one for each id in the order of the selection,
\* and goes on after a rejected one; when the loop is left, successCount +
\* errorCount = k; the run ends only through the refresh it awaits after
\* the last request, and the step that ends it leaves the selection empty
\* and isDeleting and loading false, with the report as the error when a
\* request failed and no error otherwise.
C30_BulkDeleteCoversSelection ==
    /\ [](bulk.pc # "idle" =>
            /\ \A k \in 1..Len(deleteLog) :
                  deleteLog[k] = [api |-> "expenses", id |-> bulk.ids[k],
                                  by |-> "handleBulkDelete"]
            /\ Len(deleteLog) = IF bulk.pc \in {"awaitFetch", "done"} THEN Len(bulk.ids)
                                ELSE bulk.i
            /\ bulk.successCount + bulk.errorCount =
                  IF bulk.pc = "awaitDelete" THEN Len(deleteLog) - 1 ELSE Len(deleteLog)
            /\ Len(bulk.errors) = bulk.errorCount
            /\ isDeleting = (bulk.pc # "done"))
    /\ [][bulk'.pc = "done" /\ bulk.pc # "done" =>
            /\ bulk.pc = "awaitFetch"
            /\ bulk'.successCount + bulk'.errorCount = Len(bulk'.ids)
            /\ selectedExpenses' = <<>>
            /\ ~isDeleting'
            /\ ~loading'
            /\ error' = IF bulk'.errorCount > 0 THEN BulkErrors(bulk') ELSE Null]_vars

\* A bulk delete of two expenses has ended: the first request was rejected
\* and the second fulfilled.
C30_Witness ==
    /\ bulk.pc = "done"
    /\ Len(bulk.ids) = 2
    /\ bulk.errorCount = 1
    /\ bulk.successCount = 1
    /\ bulk.errors[1].item = ItemOf(<<ExpenseTea, ExpenseBus>>, bulk.ids[1])
    /\ Len(deleteLog) = 2
    /\ selectedExpenses = <<>>
    /\ ~isDeleting

\* ------------------------------------------------------------------------
\* Properties of the delete buttons (DeleteSpec)
\* ------------------------------------------------------------------------

\* C24: on each of the four pages, a step sends a delete request only for
\* the id whose confirm() dialog returned true in that step; and a step in
\* which confirm() returns false sends no request and leaves the lists, the
\* error, loading and the requests in flight as they are.
C24_DeleteOnlyWhenConfirmed ==
    [][/\ deleteLog' # deleteLog =>
             /\ Len(deleteLog') = Len(deleteLog) + 1
             /\ deleteLog'[Len(deleteLog')].api = page
             /\ lastConfirm' = [about |-> deleteLog'[Len(deleteLog')].id, answer |-> TRUE]
       /\ (lastConfirm' # lastConfirm /\ ~lastConfirm'.answer) =>
             /\ deleteLog' = deleteLog
             /\ pendingDeletes' = pendingDeletes
             /\ refreshes' = refreshes
             /\ <<expenses, categories, budgets, wishlistItems>>' =
                   <<expenses, categories, budgets, wishlistItems>>
             /\ error' = error
             /\ loading' = loading]_vars

\* On the Wishlist page the deletion of one item was confirmed and the
\* deletion of the other cancelled.
C24_Witness ==
    /\ page = "wishlist"
    /\ deleteLog = <<[api |-> "wishlist", id |-> "w1", by |-> "handleDelete"]>>
    /\ lastConfirm = [about |-> "w2", answer |-> FALSE]

\* ------------------------------------------------------------------------
\* Properties of the forms (FormSpec, WishlistSpec)
\* ------------------------------------------------------------------------

\* C23: on the Expenses page, when an attach-category request of a newly
\* created expense settles, fulfilled or rejected alike, no delete request
\* is sent and no further create, the page's error is not set by it, and
\* the attachment of the next selected category is requested; after the
\* last one the modal is closed, the form reset and the refresh started.
C23_FailedAttachIsOnlyLogged ==
    [][ (submit.pc = "awaitAttach" /\ submit' # submit) =>
          /\ page = "expenses"
          /\ deleteLog' = deleteLog
          /\ saveLog' = saveLog
          /\ IF submit.k < Len(submit.attach)
             THEN /\ attachLog' = Append(attachLog,
                                     [by |-> "form", save |-> Len(saveLog),
                                      category |-> submit.attach[submit.k + 1]])
                  /\ submit'.pc = "awaitAttach"
                  /\ error' = error
                  /\ showModal' = showModal
                  /\ refreshes' = refreshes
             ELSE /\ attachLog' = attachLog
                  /\ submit'.result = "saved"
                  /\ showModal' = FALSE
                  /\ formData' = resetForm("expenses")
                  /\ refreshes' = refreshes + 1
                  /\ loading' = TRUE ]_vars

\* Both attachments of a new expense with two selected categories failed:
\* each was requested, the modal is closed and the refresh is under way.
C23_Witness ==
    /\ page = "expenses"
    /\ submit.result = "saved"
    /\ submit.failed = 2
    /\ [k \in 1..Len(attachLog) |-> attachLog[k].category] = <<"c2", "c1">>
    /\ Len(saveLog) = 1
    /\ saveLog[1].kind = "create"
    /\ deleteLog = <<>>
    /\ ~showModal
    /\ loading
    /\ refreshes = 1

\* C25: when the create or update request of a form is rejected, the error
\* becomes 'Failed to save <noun>' and the modal, the form data, the editing
\* target and the list stay as they are, with no refresh started; a step of
\* the submission closes the modal, resets the form or starts a refresh
\* only as the end of a successful submission, which does all three.
C25_FailedSaveKeepsForm ==
    [][ /\ (submit.pc = "awaitSave" /\ submit'.result = "failed") =>
              /\ error' = Message("Failed to save " \o Noun(page))
              /\ showModal' = showModal
              /\ formData' = formData
              /\ editing' = editing
              /\ refreshes' = refreshes
              /\ loading' = loading
        /\ (/\ submit.pc # "idle"
            /\ submit' # submit
            /\ \/ showModal' # showModal
               \/ formData' # formData
               \/ editing' # editing
               \/ refreshes' # refreshes) =>
              /\ submit'.result = "saved"
              /\ showModal' = FALSE
              /\ editing' = NoEntity
              /\ formData' = resetForm(page)
              /\ refreshes' = refreshes + 1 ]_vars

\* The update of budget b1 with a changed max spend was rejected: the modal
\* is still open on b1 with the entered value.
C25_Witness ==
    /\ page = "budgets"
    /\ submit.result = "failed"
    /\ submit.pc = "idle"
    /\ error = Message("Failed to save budget")
    /\ showModal
    /\ editing = [id |-> "b1"]
    /\ formData.max_spend = <<"5">>
    /\ saveLog[1].kind = "update"
    /\ refreshes = 0
    /\ ~loading

\* The keys of '-10.00'.
MinusTen == <<"-", "1", "0", ".", "0", "0">>

\* C26: when '-10.00' has been typed into the price field of the Add form
\* of the Wishlist page, a submission sets the error 'Price must be a
\* positive number' and sends no create request.
C26_NegativePriceRejected ==
    [][ (/\ page = "wishlist"
         /\ typed = MinusTen
         /\ typed' = typed
         /\ formData' = formData
         /\ submit.pc = "idle"
         /\ refreshes' = refreshes
         /\ error' # error \/ saveLog' # saveLog) =>
           /\ error' = Message("Price must be a positive number")
           /\ saveLog' = saveLog ]_vars

====
